---- MODULE Spec2Model ----
(***************************************************************************)
(* A model of lockss-debugpanel: the legacy script src/debugpanel.py       *)
(* (argument validation, worker pool, driving loop, join loop) and the     *)
(* model-based tool src/src/lockss/debugpanel (DebugPanelApp's job         *)
(* submission, completion loop and report; BaseCli.dispatch).              *)
(***************************************************************************)
EXTENDS Integers, Sequences, FiniteSets, TLC

\* ------------------------------------------------------------------ bounds

MaxNodes == 2
MaxAuids == 2
MaxPoolSize == 2
MaxCommands == 2
MaxFiles == 1
\* the most (node, unit) pairs of a run
MaxJobs == 4
\* what the executor library picks when max_workers is None
DefaultMaxWorkers == 3

\* ------------------------------------------------------------------ values

\* Python's None: "None" where the other values are strings, <<>> (and <<v>>
\* for a value v) where they are numbers or records
None == "None"
Nil == <<>>
Some(v) == <<v>>
Val(o) == o[1]
Hosts == {"h1", "h2"}
AuidValues == {"a1", "a2"}
Credentials == <<"user", "pass">>

SeqsUpTo(S, n) == UNION {[1..k -> S] : k \in 0..n}

Min(a, b) == IF a <= b THEN a ELSE b

\* the operations a run is started with
OpInputs == {"crawl", "crawl_plugins", "reload_config"}

\* DebugPanelApp methods going through _per_auid, and through _per_node
PerAuidMethods == {"check_substance", "crawl", "deep_crawl", "disable_indexing",
                   "poll", "reindex_metadata", "validate_files"}
PerNodeMethods == {"crawl_plugins", "reload_config"}

\* what a job function handed to the executor can do: return (status, reason)
\* or raise
JobOutcomes == {[kind |-> "return", status |-> 200, reason |-> "OK"],
                [kind |-> "return", status |-> 204, reason |-> "No Content"],
                [kind |-> "raise", exc |-> "Exception: HTTP Error 500"]}

\* what urlopen can do in the legacy script
TransportResults == {[kind |-> "response", status |-> 200],
                     [kind |-> "HTTPError", code |-> 401]}

VARIABLES
    tool,            \* "app": DebugPanelApp driven by method calls; "cli": main() of cli.py; "legacy": debugpanel.py
    pc,              \* position of the main thread
    exit_status,     \* Nil while the process runs, then Some(its exit status)
    exit_error,      \* the error the process ended with, None if none
    nodes,           \* DebugPanelApp._nodes
    auids,           \* DebugPanelApp._auids
    auth,            \* DebugPanelApp._auth
    pool_size,       \* DebugPanelApp._pool_size
    pool_type,       \* DebugPanelApp._pool_type
    executor,        \* DebugPanelApp._executor / the legacy pool: Nil or Some([max_workers, kind])
    op,              \* the operation method running
    futures,         \* job keys in submission order: <<node>> or <<node, auid>>
    fstate,          \* per job: "PENDING", "RUNNING", "FINISHED"
    fresult,         \* per job: Nil, or Some(what the job returned or raised)
    sent,            \* per job: requests handed to the transport
    yielded,         \* jobs the driving loop has consumed
    results,         \* the results mapping of _per_auid/_per_node
    table,           \* the printed report, Nil before
    args,            \* the parsed command line
    handlers,        \* handlers BaseCli.dispatch has invoked, in order
    tpc,             \* position of the legacy thread t running _do_debug_panel
    stderr,          \* lines the legacy driving loop wrote to stderr
    reordered,       \* history: a job was consumed before one submitted earlier
    node_object,     \* the _Node built last, Nil before
    call,            \* history: the arguments of the request function called last
    req,             \* the request _make_request returned last, Nil before
    urlopens,        \* urlopen calls made by the request function called last
    executed,        \* Nil, or Some(what urlopen did and what _execute_request raised)
    stderr_lock,     \* per process, the holder of its _STDERR_LOCK, Free if none
    caught,          \* legacy jobs inside their except clause, with the exception
    fsys,            \* the list files: name -> lines of text
    given,           \* Nil, or Some(the explicit values and the list files to merge)
    out,             \* Nil, or Some(what _file_lines or the merge produced)
    wait,            \* options.wait of the legacy script, Nil before the options are built
    auidloop,        \* per legacy job: its place in the loop over the AUIDs, its sleep flag, its events
    wrapped          \* Nil, or Some(a call of a job wrapper of cli.py and its outcome)

vars == <<tool, pc, exit_status, exit_error, nodes, auids, auth, pool_size, pool_type,
          executor, op, futures, fstate, fresult, sent, yielded, results, table,
          args, handlers, tpc, stderr, reordered,
          node_object, call, req, urlopens, executed,
          stderr_lock, caught, fsys, given, out, wait, auidloop, wrapped>>

\* the variables of the stderr lock and those of the list files
lockVars == <<stderr_lock, caught>>
fileVars == <<fsys, given, out>>

\* the variables of the waits between requests and of the job wrappers
waitVars == <<wait, auidloop>>
moreVars == <<waitVars, wrapped>>

\* the variables of a run of a tool, and those of the request functions
runVars == <<exit_status, exit_error, nodes, auids, pool_size, pool_type,
             executor, op, futures, fstate, fresult, sent, yielded, results, table,
             args, handlers, tpc, stderr, reordered, lockVars, fileVars>>
requestVars == <<node_object, call, req, urlopens, executed>>

appFields == <<nodes, auids, auth, pool_size, pool_type>>
jobVars == <<futures, fstate, fresult, sent, yielded, reordered>>
legacyVars == <<tpc, stderr>>

Jobs == 1..Len(futures)
Running == {j \in Jobs : fstate[j] = "RUNNING"}

\* ------------------------------------------------------- DebugPanelApp

\* app.py 116-123: the fields after construction
AppConstructed ==
    /\ nodes = <<>>
    /\ auids = <<>>
    /\ auth = Nil
    /\ executor = Nil
    /\ pool_size = Nil
    /\ pool_type = "THREAD_POOL"

NoRun ==
    /\ op = None
    /\ futures = <<>>
    /\ fstate = <<>>
    /\ fresult = <<>>
    /\ sent = <<>>
    /\ yielded = {}
    /\ reordered = FALSE
    /\ results = <<>>
    /\ table = Nil
    /\ handlers = <<>>
    /\ tpc = None
    /\ stderr = <<>>
    /\ exit_status = Nil
    /\ exit_error = None

\* no request function has been called
NoRequest ==
    /\ node_object = Nil
    /\ call = Nil
    /\ req = Nil
    /\ urlopens = 0
    /\ executed = Nil

\* debugpanel.py 108: a lock nobody holds
Free == -1

\* the processes that hold a copy of the module's lock: 0 is the process of
\* the driving loop, j the pool process that runs job j
Processes == 0..MaxNodes

\* the lock is free, no job is handling an exception
NoLock ==
    /\ stderr_lock = [p \in Processes |-> Free]
    /\ caught = <<>>

\* no list file is being read
NoFiles ==
    /\ fsys = <<>>
    /\ given = Nil
    /\ out = Nil

\* no wait duration is known, no job is in its loop, no wrapper was called
NoMore ==
    /\ wait = Nil
    /\ auidloop = <<>>
    /\ wrapped = Nil

InitApp ==
    /\ tool = "app"
    /\ pc = "idle"
    /\ args = Nil
    /\ AppConstructed
    /\ NoRun

\* an uncaught exception ends the main thread: traceback, exit status 1
Crash(err) ==
    /\ pc' = "crashed"
    /\ exit_status' = Some(1)
    /\ exit_error' = err

add_nodes(ns) ==
    /\ tool = "app" /\ pc = "idle"
    /\ Len(nodes) + Len(ns) <= MaxNodes
    /\ nodes' = nodes \o ns
    /\ UNCHANGED <<tool, pc, exit_status, exit_error, auids, auth, pool_size, pool_type,
                   executor, op, jobVars, results, table, args, handlers, legacyVars>>

add_auids(as) ==
    /\ tool = "app" /\ pc = "idle"
    /\ Len(auids) + Len(as) <= MaxAuids
    /\ auids' = auids \o as
    /\ UNCHANGED <<tool, pc, exit_status, exit_error, nodes, auth, pool_size, pool_type,
                   executor, op, jobVars, results, table, args, handlers, legacyVars>>

\* app.py 158: "if pool_size and pool_size <= 0" (None and 0 are falsy)
set_pool_size_rejects(p) == p # Nil /\ Val(p) # 0 /\ Val(p) <= 0

set_pool_size(p) ==
    /\ tool = "app" /\ pc = "idle"
    /\ IF set_pool_size_rejects(p)
       THEN /\ Crash("ValueError: pool size")
            /\ UNCHANGED pool_size
       ELSE /\ pool_size' = p
            /\ UNCHANGED <<pc, exit_status, exit_error>>
    /\ UNCHANGED <<tool, nodes, auids, auth, pool_type,
                   executor, op, jobVars, results, table, args, handlers, legacyVars>>

set_pool_type(t) ==
    /\ tool = "app" /\ pc = "idle"
    /\ pool_type' = t
    /\ UNCHANGED <<tool, pc, exit_status, exit_error, nodes, auids, auth, pool_size,
                   executor, op, jobVars, results, table, args, handlers, legacyVars>>

\* cli.py 210-213
_initialize_auth ==
    /\ tool = "app" /\ pc = "idle"
    /\ auth = Nil
    /\ auth' = Credentials
    /\ UNCHANGED <<tool, pc, exit_status, exit_error, nodes, auids, pool_size, pool_type,
                   executor, op, jobVars, results, table, args, handlers, legacyVars>>

\* mutant: the executor built without the stored pool size
ExecutorWorkers_IgnoresSize(size) == Some(DefaultMaxWorkers)

\* ThreadPoolExecutor/ProcessPoolExecutor(max_workers=size): the worker count,
\* or Nil for ValueError (max_workers must be greater than 0)
ExecutorWorkers(size) ==
    IF size = Nil THEN Some(DefaultMaxWorkers)
    ELSE IF Val(size) <= 0 THEN Nil
    ELSE size

\* mutant: the nodes and the unit identifiers zipped instead of crossed
SubmittedKeys_Zipped(method, ns, as) ==
    IF method \in PerNodeMethods
    THEN [j \in 1..Len(ns) |-> <<ns[j]>>]
    ELSE [j \in 1..Min(Len(as), Len(ns)) |-> <<ns[j], as[j]>>]

\* mutant: only the first job is submitted before the completion loop starts
SubmittedKeys_FirstOnly(method, ns, as) ==
    IF Len(ns) = 0 \/ (method \notin PerNodeMethods /\ Len(as) = 0) THEN <<>>
    ELSE IF method \in PerNodeMethods THEN << <<ns[1]>> >>
    ELSE << <<ns[1], as[1]>> >>

\* app.py 181 and 196: one future per (auid, node) in unit order then node
\* order, or one per node
SubmittedKeys(method, ns, as) ==
    IF method \in PerNodeMethods
    THEN [j \in 1..Len(ns) |-> <<ns[j]>>]
    ELSE [j \in 1..(Len(as) * Len(ns)) |->
            <<ns[((j - 1) % Len(ns)) + 1], as[((j - 1) \div Len(ns)) + 1]>>]

\* The part of an operation method, _per_auid or _per_node before the
\* completion loop: executor, node objects, submission of every job.
\* reload_config evaluates _reload_config() as the argument (app.py 155),
\* a call without a node, which raises before _per_node is entered.
StartRun(method, ns, as, creds, size, type) ==
    IF method = "reload_config"
    THEN /\ Crash("TypeError: job function called without a node")
         /\ op' = method
         /\ UNCHANGED <<executor, jobVars, results>>
    ELSE IF ExecutorWorkers(size) = Nil
    THEN /\ Crash("ValueError: max_workers must be greater than 0")
         /\ UNCHANGED <<executor, op, jobVars, results>>
    ELSE IF Len(ns) > 0 /\ creds = Nil
    THEN /\ Crash("TypeError: argument after * must be an iterable, not NoneType")
         /\ executor' = Some([max_workers |-> Val(ExecutorWorkers(size)), kind |-> type])
         /\ UNCHANGED <<op, jobVars, results>>
    ELSE /\ executor' = Some([max_workers |-> Val(ExecutorWorkers(size)), kind |-> type])
         /\ op' = method
         /\ futures' = SubmittedKeys(method, ns, as)
         /\ fstate' = [j \in 1..Len(futures') |-> "PENDING"]
         /\ fresult' = [j \in 1..Len(futures') |-> Nil]
         /\ sent' = [j \in 1..Len(futures') |-> 0]
         /\ yielded' = {}
         /\ reordered' = FALSE
         /\ results' = <<>>
         /\ pc' = "consuming"
         /\ UNCHANGED <<exit_status, exit_error>>

\* a call of an operation method of DebugPanelApp (app.py 133-168)
Operation(method) ==
    /\ tool = "app" /\ pc = "idle"
    /\ Len(nodes) * Len(auids) <= MaxJobs
    /\ StartRun(method, nodes, auids, auth, pool_size, pool_type)
    /\ UNCHANGED <<tool, appFields, table, args, handlers, legacyVars>>

\* app.py 187 and 202: the cell stored for a job that returned
Cell(status, reason) == IF status = 200 THEN "Requested" ELSE reason

\* app.py 185-189 and 200-204: what one pass of the completion loop stores
\* for a future
Recorded(outcome) ==
    IF outcome.kind = "return"
    THEN Cell(outcome.status, outcome.reason)
    ELSE outcome.exc

\* mutant: the pass without its try/except, the job's exception escapes
Consume_NoTry(j) ==
    /\ tool \in {"app", "cli"} /\ pc = "consuming"
    /\ j \in Jobs /\ j \notin yielded
    /\ fstate[j] = "FINISHED"
    /\ yielded' = yielded \cup {j}
    /\ reordered' = (reordered \/ \E i \in 1..(j - 1) : i \notin yielded)
    /\ IF Val(fresult[j]).kind = "raise"
       THEN /\ Crash(Val(fresult[j]).exc)
            /\ UNCHANGED results
       ELSE /\ results' = (futures[j] :> Recorded(Val(fresult[j]))) @@ results
            /\ UNCHANGED <<pc, exit_status, exit_error>>
    /\ UNCHANGED <<tool, appFields, executor, op, futures,
                   fstate, fresult, sent, table, args, handlers, legacyVars>>

\* mutant: the except branch stores nothing
Consume_SkipsRaised(j) ==
    /\ tool \in {"app", "cli"} /\ pc = "consuming"
    /\ j \in Jobs /\ j \notin yielded
    /\ fstate[j] = "FINISHED"
    /\ yielded' = yielded \cup {j}
    /\ reordered' = (reordered \/ \E i \in 1..(j - 1) : i \notin yielded)
    /\ results' = IF Val(fresult[j]).kind = "raise" THEN results
                  ELSE (futures[j] :> Recorded(Val(fresult[j]))) @@ results
    /\ UNCHANGED <<tool, pc, exit_status, exit_error, appFields, executor, op, futures,
                   fstate, fresult, sent, table, args, handlers, legacyVars>>

\* app.py 183-189, 198-204: one pass of "for future in as_completed(futures)"
Consume(j) ==
    /\ tool \in {"app", "cli"} /\ pc = "consuming"
    /\ j \in Jobs /\ j \notin yielded
    /\ fstate[j] = "FINISHED"
    /\ yielded' = yielded \cup {j}
    /\ reordered' = (reordered \/ \E i \in 1..(j - 1) : i \notin yielded)
    /\ results' = (futures[j] :> Recorded(Val(fresult[j]))) @@ results
    /\ UNCHANGED <<tool, pc, exit_status, exit_error, appFields, executor, op, futures,
                   fstate, fresult, sent, table, args, handlers, legacyVars>>

\* app.py 190-191 and 205-206: the rows handed to tabulate and the headers
TableKeys(method, ns, as) ==
    IF method \in PerNodeMethods
    THEN {<<ns[i]>> : i \in 1..Len(ns)}
    ELSE {<<ns[j], as[i]>> : i \in 1..Len(as), j \in 1..Len(ns)}

\* mutant: rows by node and columns by unit identifier
TableRows_Transposed(method, ns, as, res) ==
    IF method \in PerNodeMethods
    THEN [i \in 1..Len(ns) |-> <<ns[i], res[<<ns[i]>>]>>]
    ELSE [j \in 1..Len(ns) |->
            <<ns[j]>> \o [i \in 1..Len(as) |-> res[<<ns[j], as[i]>>]]]

TableRows(method, ns, as, res) ==
    IF method \in PerNodeMethods
    THEN [i \in 1..Len(ns) |-> <<ns[i], res[<<ns[i]>>]>>]
    ELSE [i \in 1..Len(as) |->
            <<as[i]>> \o [j \in 1..Len(ns) |-> res[<<ns[j], as[i]>>]]]

TableHeaders(method, ns) ==
    IF method \in PerNodeMethods THEN <<"Node", "Result">> ELSE <<"AUID">> \o ns

\* the loop has ended (as_completed is exhausted): print the table and return;
\* results[key] of a key never stored raises KeyError
\* mutant: the node list reversed in place before the table is built
Render_ReversesNodes ==
    /\ tool \in {"app", "cli"} /\ pc = "consuming"
    /\ yielded = Jobs
    /\ nodes' = [i \in 1..Len(nodes) |-> nodes[Len(nodes) + 1 - i]]
    /\ IF TableKeys(op, nodes, auids) \subseteq DOMAIN results
       THEN /\ table' = Some([headers |-> TableHeaders(op, nodes'),
                              rows |-> TableRows(op, nodes', auids, results)])
            /\ pc' = "done"
            /\ exit_status' = Some(0)
            /\ UNCHANGED exit_error
       ELSE /\ Crash("KeyError")
            /\ UNCHANGED table
    /\ UNCHANGED <<tool, auids, auth, pool_size, pool_type, executor, op, jobVars, results,
                   args, handlers, legacyVars>>

Render ==
    /\ tool \in {"app", "cli"} /\ pc = "consuming"
    /\ yielded = Jobs
    /\ IF TableKeys(op, nodes, auids) \subseteq DOMAIN results
       THEN /\ table' = Some([headers |-> TableHeaders(op, nodes),
                              rows |-> TableRows(op, nodes, auids, results)])
            /\ pc' = "done"
            /\ exit_status' = Some(0)
            /\ UNCHANGED exit_error
       ELSE /\ Crash("KeyError")
            /\ UNCHANGED table
    /\ UNCHANGED <<tool, appFields, executor, op, jobVars, results, args, handlers, legacyVars>>

\* ------------------------------------------------------------ the pool

\* a worker takes the next queued job (the pools hand out work in
\* submission order) when fewer than max_workers jobs are running
CanStart(j) ==
    /\ executor # Nil
    /\ j \in Jobs
    /\ fstate[j] = "PENDING"
    /\ \A i \in 1..(j - 1) : fstate[i] # "PENDING"
    /\ Cardinality(Running) < Val(executor).max_workers

ProcessAlive == exit_status = Nil

JobStart(j) ==
    /\ ProcessAlive
    /\ CanStart(j)
    /\ fstate' = [fstate EXCEPT ![j] = "RUNNING"]
    /\ UNCHANGED <<tool, pc, exit_status, exit_error, appFields, executor, op, futures,
                   fresult, sent, yielded, reordered, results, table, args, handlers,
                   legacyVars>>

\* a job function of the package runs to its end: one request, then it
\* returns or raises
JobFinish(j, o) ==
    /\ tool \in {"app", "cli"}
    /\ ProcessAlive
    /\ j \in Jobs /\ fstate[j] = "RUNNING"
    /\ fstate' = [fstate EXCEPT ![j] = "FINISHED"]
    /\ fresult' = [fresult EXCEPT ![j] = Some(o)]
    /\ sent' = [sent EXCEPT ![j] = @ + 1]
    /\ UNCHANGED <<tool, pc, exit_status, exit_error, appFields, executor, op, futures,
                   yielded, reordered, results, table, args, handlers, legacyVars>>

\* ------------------------------------------------- cli.py and cliutil.py

\* cli.py 139-148: the fields of DebugPanelModel in declaration order, and
\* those that hold a command (a BaseModel) when set
FieldNames == <<"debug_cli", "copyright", "cp", "crawl_plugins", "license", "rc",
                "reload_config", "version">>
CommandFields == {"copyright", "cp", "crawl_plugins", "license", "rc", "reload_config",
                  "version"}
StringCommands == {"copyright", "license", "version"}

\* cli.py 160-173: the fields f for which DebugPanelCli defines a method _f
HandlerFields == {"cp", "crawl_plugins", "copyright", "license", "version"}

\* the list files of the command lines, with their meaningful lines
HostFiles == {"hosts.txt"}
AuidFiles == {"auids.txt"}
FileLines(f) == IF f = "hosts.txt" THEN <<"h2">> ELSE <<"a2">>

RECURSIVE AllLines(_)
AllLines(fs) == IF fs = <<>> THEN <<>> ELSE FileLines(Head(fs)) \o AllLines(Tail(fs))

\* the parsed DebugPanelModel: the command fields that are set, and the node
\* and nodes options of a nodes command
\* cli.py 143-147: the command fields whose model is a NodesModel, the only
\* ones that take the job pool options
NodesCommands == {"cp", "crawl_plugins", "rc", "reload_config"}

CliArgs == {a \in [commands : {c \in SUBSET CommandFields : Cardinality(c) <= MaxCommands},
                   node : SeqsUpTo(Hosts, MaxNodes),
                   nodes : SeqsUpTo(HostFiles, MaxFiles),
                   process_pool : BOOLEAN,
                   thread_pool : BOOLEAN] :
                (a.process_pool \/ a.thread_pool) => a.commands \cap NodesCommands # {}}

\* cliutil.py 123-126 and 145-146, called by the root validator of
\* JobPoolModel (cli.py 87-89): TRUE when ValueError is raised
at_most_one_raises(a) ==
    Cardinality({name \in {"process_pool", "thread_pool"} : a[name]}) > 1

\* cli.py 91-97: the first boolean field that is set, in field order
\* (pool_size, process_pool, thread_pool), names the pool type
get_pool_type(a) ==
    IF a.process_pool THEN "PROCESS_POOL"
    ELSE IF a.thread_pool THEN "THREAD_POOL"
    ELSE "THREAD_POOL"

\* cli.py 110-114
get_nodes(a) == a.node \o AllLines(a.nodes)

\* cliutil.py 113-118: the fields whose value is a BaseModel, in field order
SetFields(a) == SelectSeq(FieldNames, LAMBDA f : f \in a.commands)

\* cliutil.py 111-120: the field dispatch picks, None when the loop ends
\* without a break
Dispatched(a) == IF SetFields(a) = <<>> THEN None ELSE Head(SetFields(a))

InitCli ==
    /\ tool = "cli"
    /\ pc = "start"
    /\ args = Nil
    /\ AppConstructed
    /\ NoRun

\* cliutil.py 104-120 with the handlers of cli.py 160-213: parse, dispatch,
\* and the handler up to the completion loop
run(a) ==
    /\ tool = "cli" /\ pc = "start"
    /\ Len(get_nodes(a)) <= MaxNodes
    /\ args' = Some(a)
    /\ LET f == Dispatched(a) IN
       IF at_most_one_raises(a)
       THEN \* parse_typed_args reports the validation error
            /\ pc' = "exited"
            /\ exit_status' = Some(2)
            /\ exit_error' = "at most one of --process-pool, --thread-pool is allowed"
            /\ UNCHANGED <<appFields, executor, op, jobVars, results, handlers>>
       ELSE IF f = None
       THEN \* parser.error
            /\ pc' = "exited"
            /\ exit_status' = Some(2)
            /\ exit_error' = "unknown command"
            /\ UNCHANGED <<appFields, executor, op, jobVars, results, handlers>>
       ELSE IF f \notin HandlerFields
       THEN /\ Crash("AttributeError")
            /\ UNCHANGED <<appFields, executor, op, jobVars, results, handlers>>
       ELSE IF f \in StringCommands
       THEN \* _do_string_command: print and return
            /\ handlers' = Append(handlers, f)
            /\ pc' = "done"
            /\ exit_status' = Some(0)
            /\ UNCHANGED <<exit_error, appFields, executor, op, jobVars, results>>
       ELSE \* _cp, _crawl_plugins: _do_nodes_command(model, self.crawl_plugins)
            /\ handlers' = Append(handlers, f)
            /\ nodes' = nodes \o get_nodes(a)
            /\ auth' = Credentials
            /\ pool_type' = get_pool_type(a)
            /\ UNCHANGED <<auids, pool_size>>
            /\ StartRun("crawl_plugins", nodes \o get_nodes(a), auids, Credentials, pool_size,
                        get_pool_type(a))
    /\ UNCHANGED <<tool, table, legacyVars>>

\* ------------------------------------------------------- debugpanel.py

\* debugpanel.py 166 and 178
flds == {"check_substance", "crawl", "crawl_plugins", "deep_crawl", "disable_indexing",
         "poll", "reindex_metadata", "reload_config"}
auid_flds == {"check_substance", "crawl", "deep_crawl", "disable_indexing", "poll",
              "reindex_metadata"}

\* what argparse hands to _DebugPanelOptions
LegacyArgs ==
    [info : {None, "copyright", "license", "tutorial"},
     ops : SUBSET (OpInputs \cap flds),
     host : SeqsUpTo(Hosts, MaxNodes),
     hosts : SeqsUpTo(HostFiles, MaxFiles),
     auid : SeqsUpTo(AuidValues, MaxAuids),
     auids : SeqsUpTo(AuidFiles, MaxFiles),
     pool_size : -1..MaxPoolSize,
     keep_going : BOOLEAN,
     process_pool : BOOLEAN,
     thread_pool : BOOLEAN]

\* debugpanel.py 172-174 and 180-182
MergedHosts(a) == a.host \o AllLines(a.hosts)
MergedAuids(a) == a.auid \o AllLines(a.auids)

\* mutant: the thread pool flag looked at instead of the process pool flag
pool_class_ThreadFlag(a) == IF a.thread_pool THEN "THREAD_POOL" ELSE "PROCESS_POOL"

\* debugpanel.py 197
pool_class(a) == IF a.process_pool THEN "PROCESS_POOL" ELSE "THREAD_POOL"

\* debugpanel.py 198
OptionsPoolSize(a) == IF a.pool_size # 0 THEN a.pool_size ELSE Len(MergedHosts(a))

\* mutant: unit identifiers given with a node-scoped operation are let through
OptionsResult_UnitsIgnored(a) ==
    IF a.info # None THEN [status |-> 0, error |-> None]
    ELSE IF Cardinality(a.ops) # 1
    THEN [status |-> 2, error |-> "exactly one operation is required"]
    ELSE IF Len(MergedHosts(a)) = 0
    THEN [status |-> 2, error |-> "at least one target host is required"]
    ELSE IF a.ops \cap auid_flds # {} /\ Len(MergedAuids(a)) = 0
    THEN [status |-> 2, error |-> "at least one target AUID is required"]
    ELSE IF a.pool_size < 0
    THEN [status |-> 2, error |-> "invalid pool size"]
    ELSE IF a.process_pool /\ a.thread_pool
    THEN [status |-> 2, error |-> "--process-pool and --thread-pool are mutually exclusive"]
    ELSE [status |-> -1, error |-> None]

\* mutant: only a missing operation is refused, several are let through
OptionsResult_AtLeastOne(a) ==
    IF a.info # None THEN [status |-> 0, error |-> None]
    ELSE IF Cardinality(a.ops) < 1
    THEN [status |-> 2, error |-> "exactly one operation is required"]
    ELSE IF Len(MergedHosts(a)) = 0
    THEN [status |-> 2, error |-> "at least one target host is required"]
    ELSE IF a.ops \cap auid_flds # {} /\ Len(MergedAuids(a)) = 0
    THEN [status |-> 2, error |-> "at least one target AUID is required"]
    ELSE IF a.ops \cap auid_flds = {} /\ Len(a.auid) + Len(a.auids) > 0
    THEN [status |-> 2, error |-> "--auid, --auids only valid with AUID operations"]
    ELSE IF a.pool_size < 0
    THEN [status |-> 2, error |-> "invalid pool size"]
    ELSE IF a.process_pool /\ a.thread_pool
    THEN [status |-> 2, error |-> "--process-pool and --thread-pool are mutually exclusive"]
    ELSE [status |-> -1, error |-> None]

\* debugpanel.py 155-202: how _DebugPanelOptions.__init__ ends: "ok", or the
\* exit it takes, in the order of its checks
OptionsResult(a) ==
    IF a.info # None THEN [status |-> 0, error |-> None]
    ELSE IF Cardinality(a.ops) # 1
    THEN [status |-> 2, error |-> "exactly one operation is required"]
    ELSE IF Len(MergedHosts(a)) = 0
    THEN [status |-> 2, error |-> "at least one target host is required"]
    ELSE IF a.ops \cap auid_flds # {} /\ Len(MergedAuids(a)) = 0
    THEN [status |-> 2, error |-> "at least one target AUID is required"]
    ELSE IF a.ops \cap auid_flds = {} /\ Len(a.auid) + Len(a.auids) > 0
    THEN [status |-> 2, error |-> "--auid, --auids only valid with AUID operations"]
    ELSE IF a.pool_size < 0
    THEN [status |-> 2, error |-> "invalid pool size"]
    ELSE IF a.process_pool /\ a.thread_pool
    THEN [status |-> 2, error |-> "--process-pool and --thread-pool are mutually exclusive"]
    ELSE [status |-> -1, error |-> None]

Options == Val(args)
TheOp == CHOOSE o \in Options.ops : TRUE

InitLegacy ==
    /\ tool = "legacy"
    /\ pc = "start"
    /\ args = Nil
    /\ AppConstructed
    /\ NoRun

\* debugpanel.py 296-303: parse, build the options, start the thread t
_main(a) ==
    /\ tool = "legacy" /\ pc = "start"
    /\ Len(MergedHosts(a)) <= MaxNodes
    /\ Len(MergedAuids(a)) <= MaxAuids
    /\ Len(MergedHosts(a)) * Len(MergedAuids(a)) <= MaxJobs
    /\ args' = Some(a)
    /\ IF OptionsResult(a).status >= 0
       THEN /\ pc' = "exited"
            /\ exit_status' = Some(OptionsResult(a).status)
            /\ exit_error' = OptionsResult(a).error
            /\ UNCHANGED tpc
       ELSE /\ pc' = "joining"
            /\ tpc' = "start"
            /\ UNCHANGED <<exit_status, exit_error>>
    /\ UNCHANGED <<tool, appFields, executor, op, jobVars, results, table, handlers, stderr>>

\* debugpanel.py 273-282: the pool, the jobs (one per host), imap_unordered
_do_debug_panel ==
    /\ tool = "legacy" /\ tpc = "start" /\ ProcessAlive
    /\ executor' = Some([max_workers |-> OptionsPoolSize(Options),
                         kind |-> pool_class(Options)])
    /\ op' = TheOp
    /\ futures' = [j \in 1..Len(MergedHosts(Options)) |-> <<MergedHosts(Options)[j]>>]
    /\ fstate' = [j \in 1..Len(futures') |-> "PENDING"]
    /\ fresult' = [j \in 1..Len(futures') |-> Nil]
    /\ sent' = [j \in 1..Len(futures') |-> 0]
    /\ yielded' = {}
    /\ reordered' = FALSE
    /\ tpc' = "loop"
    /\ UNCHANGED <<tool, pc, exit_status, exit_error, appFields, results, table, args,
                   handlers, stderr>>

\* debugpanel.py 210-221: what _execute_request raises for a transport
\* result, None when it returns the response
ExecuteRequestError(r) ==
    IF r.kind = "response" THEN None
    ELSE IF r.kind = "URLError" THEN "URL error"
    ELSE IF r.code = 401 THEN "bad username or password (HTTP 401)"
    ELSE IF r.code = 403 THEN "not allowed from this IP address (HTTP 403)"
    ELSE "HTTP error"

\* requests a legacy job sends if none fails: one per AUID, or one
JobRequests == IF op \in auid_flds THEN Len(MergedAuids(Options)) ELSE 1

\* mutant: the job goes on to the next AUID after a failed request
JobRequest_KeepsSending(j, r) ==
    /\ tool = "legacy" /\ ProcessAlive
    /\ j \in Jobs /\ fstate[j] = "RUNNING"
    /\ sent' = [sent EXCEPT ![j] = @ + 1]
    /\ IF sent[j] + 1 = JobRequests
       THEN /\ fstate' = [fstate EXCEPT ![j] = "FINISHED"]
            /\ fresult' = [fresult EXCEPT ![j] =
                              IF fresult[j] # Nil THEN fresult[j]
                              ELSE Some(ExecuteRequestError(r))]
       ELSE /\ fresult' = [fresult EXCEPT ![j] =
                              IF fresult[j] # Nil \/ ExecuteRequestError(r) = None
                              THEN fresult[j] ELSE Some(ExecuteRequestError(r))]
            /\ UNCHANGED fstate
    /\ UNCHANGED <<tool, pc, exit_status, exit_error, appFields, executor, op, futures,
                   yielded, reordered, results, table, args, handlers, legacyVars>>

\* debugpanel.py 234-271: one request of _do_per_auid_job or _do_per_host_job;
\* the job returns (host, e) at the first error and (host, None) after its
\* last request
JobRequest(j, r) ==
    /\ tool = "legacy" /\ ProcessAlive
    /\ j \in Jobs /\ fstate[j] = "RUNNING"
    /\ sent' = [sent EXCEPT ![j] = @ + 1]
    /\ IF ExecuteRequestError(r) # None
       THEN /\ fstate' = [fstate EXCEPT ![j] = "FINISHED"]
            /\ fresult' = [fresult EXCEPT ![j] = Some(ExecuteRequestError(r))]
       ELSE IF sent[j] + 1 = JobRequests
       THEN /\ fstate' = [fstate EXCEPT ![j] = "FINISHED"]
            /\ fresult' = [fresult EXCEPT ![j] = Some(None)]
       ELSE UNCHANGED <<fstate, fresult>>
    /\ UNCHANGED <<tool, pc, exit_status, exit_error, appFields, executor, op, futures,
                   yielded, reordered, results, table, args, handlers, legacyVars>>

\* mutant: the pass exits at an error whether or not --keep-going was given
LoopPass_IgnoresKeepGoing(j) ==
    /\ tool = "legacy" /\ tpc = "loop" /\ ProcessAlive
    /\ j \in Jobs /\ j \notin yielded
    /\ fstate[j] = "FINISHED"
    /\ yielded' = yielded \cup {j}
    /\ reordered' = (reordered \/ \E i \in 1..(j - 1) : i \notin yielded)
    /\ IF Val(fresult[j]) # None
       THEN /\ stderr' = Append(stderr, <<futures[j][1], Val(fresult[j])>>)
            /\ tpc' = "SystemExit"
       ELSE UNCHANGED <<tpc, stderr>>
    /\ UNCHANGED <<tool, pc, exit_status, exit_error, appFields, executor, op, futures,
                   fstate, fresult, sent, results, table, args, handlers>>

\* debugpanel.py 282-288: one pass of the loop over imap_unordered; sys.exit(1)
\* raises SystemExit in the thread t, which ends t
LoopPass(j) ==
    /\ tool = "legacy" /\ tpc = "loop" /\ ProcessAlive
    /\ j \in Jobs /\ j \notin yielded
    /\ fstate[j] = "FINISHED"
    /\ yielded' = yielded \cup {j}
    /\ reordered' = (reordered \/ \E i \in 1..(j - 1) : i \notin yielded)
    /\ IF Val(fresult[j]) # None
       THEN /\ stderr' = Append(stderr, <<futures[j][1], Val(fresult[j])>>)
            /\ tpc' = IF Options.keep_going THEN "loop" ELSE "SystemExit"
       ELSE UNCHANGED <<tpc, stderr>>
    /\ UNCHANGED <<tool, pc, exit_status, exit_error, appFields, executor, op, futures,
                   fstate, fresult, sent, results, table, args, handlers>>

\* the loop ends when imap_unordered is exhausted: _do_debug_panel returns
LoopEnd ==
    /\ tool = "legacy" /\ tpc = "loop" /\ ProcessAlive
    /\ yielded = Jobs
    /\ tpc' = "returned"
    /\ UNCHANGED <<tool, pc, exit_status, exit_error, appFields, executor, op, jobVars,
                   results, table, args, handlers, stderr>>

\* mutant: the join loop breaks only when _do_debug_panel has returned
JoinLoopExit_OnlyOnReturn ==
    /\ tool = "legacy" /\ pc = "joining"
    /\ tpc = "returned"
    /\ pc' = "exited"
    /\ exit_status' = Some(0)
    /\ UNCHANGED <<tool, exit_error, appFields, executor, op, jobVars, results, table,
                   args, handlers, legacyVars>>

\* debugpanel.py 304-306: t is no longer alive, the join loop breaks, _main
\* returns and the interpreter exits
JoinLoopExit ==
    /\ tool = "legacy" /\ pc = "joining"
    /\ tpc \in {"returned", "SystemExit"}
    /\ pc' = "exited"
    /\ exit_status' = Some(0)
    /\ UNCHANGED <<tool, exit_error, appFields, executor, op, jobVars, results, table,
                   args, handlers, legacyVars>>

NextCli ==
    \/ (tool = "cli" /\ pc = "start" /\ \E a \in CliArgs : run(a))

NextLegacy ==
    \/ (tool = "legacy" /\ pc = "start" /\ \E a \in LegacyArgs : _main(a))
    \/ _do_debug_panel
    \/ \E j \in Jobs, r \in TransportResults : JobRequest(j, r)
    \/ \E j \in Jobs : LoopPass(j)
    \/ LoopEnd
    \/ JoinLoopExit

NextApp ==
    \/ \E ns \in SeqsUpTo(Hosts, MaxNodes) \ {<<>>} : add_nodes(ns)
    \/ \E as \in SeqsUpTo(AuidValues, MaxAuids) \ {<<>>} : add_auids(as)
    \/ \E p \in {Nil} \cup {Some(n) : n \in -1..MaxPoolSize} : set_pool_size(p)
    \/ \E t \in {"THREAD_POOL", "PROCESS_POOL"} : set_pool_type(t)
    \/ _initialize_auth
    \/ \E m \in OpInputs : Operation(m)
    \/ \E j \in Jobs : JobStart(j)
    \/ \E j \in Jobs, o \in JobOutcomes : JobFinish(j, o)
    \/ \E j \in Jobs : Consume(j)
    \/ Render

\* ------------------------------------------------- the request functions

\* bounds of the strings the request functions are applied to
MaxAddrLen == 4
MaxAuidLen == 2

\* debugpanel.py 144: the default of --depth
DefaultDepth == 123

\* A string is a sequence of pieces: single characters where the code looks
\* at characters, literals of the code and opaque values elsewhere.
AddrChars == {"h", ":", "/"}
Addresses == SeqsUpTo(AddrChars, MaxAddrLen) \ {<<>>}
AuidChars == {"a", "%", "|", "&", "~"}
ExampleAuid == <<"a", "%", "b", "|", "c", "&", "d", "~", "e">>
AuidStrings == (SeqsUpTo(AuidChars, MaxAuidLen) \ {<<>>}) \cup {ExampleAuid}
CredentialPairs == {<<u, p>> : u \in {"user", "admin"}, p \in {"pass", "secret"}}
Depths == {DefaultDepth, 5}

\* what urlopen can do with a request
UrlopenResults ==
    {[kind |-> "response", status |-> 200, reason |-> "OK"],
     [kind |-> "response", status |-> 204, reason |-> "No Content"],
     [kind |-> "HTTPError", code |-> 401, reason |-> "Unauthorized"],
     [kind |-> "HTTPError", code |-> 403, reason |-> "Forbidden"],
     [kind |-> "HTTPError", code |-> 500, reason |-> "Internal Server Error"],
     [kind |-> "URLError", reason |-> "Connection refused"]}

\* str.replace(old, new) for a one-character old
RECURSIVE Replace(_, _, _)
Replace(str, old, new) ==
    IF str = <<>> THEN <<>>
    ELSE (IF Head(str) = old THEN new ELSE <<Head(str)>>) \o Replace(Tail(str), old, new)

\* '{}'.format(n) for an integer n
DigitChars == <<"0", "1", "2", "3", "4", "5", "6", "7", "8", "9">>
RECURSIVE Digits(_)
Digits(n) ==
    IF n < 10 THEN <<DigitChars[n + 1]>> ELSE Digits(n \div 10) \o <<DigitChars[(n % 10) + 1]>>
Str(n) == IF n < 0 THEN <<"-">> \o Digits(-n) ELSE Digits(n)

\* base64.b64encode(...).decode('utf-8'): the library's encoding, one-to-one
B64(str) == [b64 |-> str]

\* debugpanel.py 237-243 and 260-262: the action of the selected operation
ActionName(o) ==
    CASE o = "check_substance" -> <<"Check", " ", "Substance">>
      [] o = "crawl" -> <<"Force", " ", "Start", " ", "Crawl">>
      [] o = "deep_crawl" -> <<"Force", " ", "Deep", " ", "Crawl">>
      [] o = "disable_indexing" -> <<"Disable", " ", "Indexing">>
      [] o = "poll" -> <<"Start", " ", "V3", " ", "Poll">>
      [] o = "reindex_metadata" -> <<"Force", " ", "Reindex", " ", "Metadata">>
      [] o = "crawl_plugins" -> <<"Crawl", " ", "Plugins">>
      [] o = "reload_config" -> <<"Reload", " ", "Config">>

\* debugpanel.py 236 and 239: the keyword arguments of the selected operation
ActionKwargs(o, depth) == IF o = "deep_crawl" THEN << <<"depth", depth>> >> ELSE <<>>

\* debugpanel.py 224, 230 and __init__.py 105
ActionEnc(action) == Replace(action, " ", <<"%", "2", "0">>)

\* mutant: the percent sign escaped last
AuidEnc_PercentLast(auid) ==
    Replace(Replace(Replace(Replace(auid, "|", <<"%", "7", "C">>),
                            "&", <<"%", "2", "6">>),
                    "~", <<"%", "7", "E">>),
            "%", <<"%", "2", "5">>)

\* mutant: the tilde escaped with the code of the vertical bar
AuidEnc_TildeAsBar(auid) ==
    Replace(Replace(Replace(Replace(auid, "%", <<"%", "2", "5">>),
                            "|", <<"%", "7", "C">>),
                    "&", <<"%", "2", "6">>),
            "~", <<"%", "7", "C">>)

\* debugpanel.py 225
AuidEnc(auid) ==
    Replace(Replace(Replace(Replace(auid, "%", <<"%", "2", "5">>),
                            "|", <<"%", "7", "C">>),
                    "&", <<"%", "2", "6">>),
            "~", <<"%", "7", "E">>)

\* mutant: the keyword arguments put in front of the query
RECURSIVE WithKwargs_Prepended(_, _)
WithKwargs_Prepended(query, kwargs) ==
    IF kwargs = <<>> THEN query
    ELSE WithKwargs_Prepended(<<Head(kwargs)[1], "=">> \o Str(Head(kwargs)[2])
                                  \o <<"&">> \o query,
                              Tail(kwargs))

\* debugpanel.py 205 and __init__.py 97-98: the keyword arguments appended
RECURSIVE WithKwargs(_, _)
WithKwargs(query, kwargs) ==
    IF kwargs = <<>> THEN query
    ELSE WithKwargs(query \o <<"&", Head(kwargs)[1], "=">> \o Str(Head(kwargs)[2]),
                    Tail(kwargs))

\* mutant: the password left out of the encoded credentials
OptionsAuth_NoPassword(cred) == B64(<<cred[1], ":">>)

\* debugpanel.py 200-202: options.auth
OptionsAuth(cred) == B64(<<cred[1], ":", cred[2]>>)

\* debugpanel.py 204-208
legacy_make_request(options_auth, host, query, kwargs) ==
    [url |-> <<"http://", host, "/DebugPanel?">> \o WithKwargs(query, kwargs),
     headers |-> [Authorization |-> <<"Basic ", options_auth>>]]

\* mutant: the 403 branch raising the text of the 401 branch
ExceptionText_SameAuthText(r) ==
    IF r.kind = "URLError" THEN <<"URL error: ", r.reason>>
    ELSE IF r.code = 401 THEN <<"bad username or password (HTTP 401)">>
    ELSE IF r.code = 403 THEN <<"bad username or password (HTTP 401)">>
    ELSE <<"HTTP ">> \o Str(r.code) \o <<" error: ", r.reason>>

\* debugpanel.py 210-221: the text of the exception _execute_request raises
ExceptionText(r) ==
    IF r.kind = "URLError" THEN <<"URL error: ", r.reason>>
    ELSE IF r.code = 401 THEN <<"bad username or password (HTTP 401)">>
    ELSE IF r.code = 403 THEN <<"not allowed from this IP address (HTTP 403)">>
    ELSE <<"HTTP ">> \o Str(r.code) \o <<" error: ", r.reason>>

\* '://' in hostport
HasScheme(str) ==
    \E i \in 1..(Len(str) - 2) : str[i] = ":" /\ str[i + 1] = "/" /\ str[i + 2] = "/"

\* __init__.py 75-82: _Node.__init__
_Node(hostport, u, p) ==
    LET withScheme == IF HasScheme(hostport) THEN hostport
                      ELSE <<"h", "t", "t", "p", ":", "/", "/">> \o hostport
        stripped == IF withScheme[Len(withScheme)] = "/"
                    THEN SubSeq(withScheme, 1, Len(withScheme) - 1)
                    ELSE withScheme
    IN [url |-> stripped, basic |-> B64(<<u, ":", p>>)]

\* __init__.py 96-102, with _Node.authenticate (84-85) and get_url (87-88)
_make_request(node, query, kwargs) ==
    [url |-> node.url \o <<"/DebugPanel?">> \o WithKwargs(query, kwargs),
     headers |-> [Authorization |-> <<"Basic ", node.basic>>]]

\* __init__.py 90-94: str(Exception(exc)) is str(exc), the library's text
PackageExceptionText(r) ==
    IF r.kind = "URLError" THEN <<"<urlopen error ", r.reason, ">">>
    ELSE <<"HTTP Error ">> \o Str(r.code) \o <<": ", r.reason>>

\* The request functions applied to bounded arguments: tool is "script" for
\* those of debugpanel.py and "package" for those of __init__.py, one job
\* body per behaviour; pc names the function that ended last; auth holds the
\* credentials of the invocation.
InitRequest ==
    /\ tool \in {"script", "package"}
    /\ pc = "ready"
    /\ auth \in CredentialPairs
    /\ nodes = <<>> /\ auids = <<>>
    /\ executor = Nil /\ pool_size = Nil /\ pool_type = "THREAD_POOL"
    /\ args = Nil
    /\ NoRun
    /\ NoRequest
    /\ NoLock
    /\ NoFiles
    /\ NoMore

\* what _execute_request of debugpanel.py does with urlopen's result
LegacyExecuted(r) ==
    [result |-> r,
     error |-> IF r.kind = "response" THEN Nil ELSE Some(ExceptionText(r))]

\* debugpanel.py 223-227: _do_per_auid, called by _do_per_auid_job with the
\* action and the keyword arguments of the operation
_do_per_auid(host, o, auid, depth, r) ==
    /\ tool = "script" /\ pc = "ready"
    /\ o \in auid_flds
    /\ call' = Some([target |-> <<host>>, action |-> ActionName(o), auid |-> Some(auid),
                     kwargs |-> ActionKwargs(o, depth)])
    /\ req' = Some(legacy_make_request(OptionsAuth(auth), host,
                        <<"action=">> \o ActionEnc(ActionName(o))
                            \o <<"&auid=">> \o AuidEnc(auid),
                        ActionKwargs(o, depth)))
    /\ urlopens' = 1
    /\ executed' = Some(LegacyExecuted(r))
    /\ pc' = "_do_per_auid"
    /\ UNCHANGED <<tool, auth, node_object, runVars, moreVars>>

\* debugpanel.py 229-232: _do_per_host, called by _do_per_host_job
_do_per_host(host, o, r) ==
    /\ tool = "script" /\ pc = "ready"
    /\ o \in flds \ auid_flds
    /\ call' = Some([target |-> <<host>>, action |-> ActionName(o), auid |-> Nil,
                     kwargs |-> <<>>])
    /\ req' = Some(legacy_make_request(OptionsAuth(auth), host,
                        <<"action=">> \o ActionEnc(ActionName(o)), <<>>))
    /\ urlopens' = 1
    /\ executed' = Some(LegacyExecuted(r))
    /\ pc' = "_do_per_host"
    /\ UNCHANGED <<tool, auth, node_object, runVars, moreVars>>

\* lockss.debugpanel.node(node, *auth): the _Node of an address
MakeNode(address) ==
    /\ tool = "package" /\ pc = "ready"
    /\ node_object = Nil
    /\ node_object' = Some(_Node(address, auth[1], auth[2]))
    /\ UNCHANGED <<tool, pc, auth, call, req, urlopens, executed, runVars, moreVars>>

\* __init__.py 104-106: _node_action builds the request and returns None
_node_action(o, kwargs) ==
    /\ tool = "package" /\ pc = "ready"
    /\ node_object # Nil
    /\ call' = Some([target |-> Val(node_object).url, action |-> ActionName(o),
                     auid |-> Nil, kwargs |-> kwargs])
    /\ req' = Some(_make_request(Val(node_object),
                                 <<"action=">> \o ActionEnc(ActionName(o)), kwargs))
    /\ urlopens' = 0
    /\ executed' = Nil
    /\ pc' = "_node_action"
    /\ UNCHANGED <<tool, auth, node_object, runVars, moreVars>>

\* __init__.py 68-69: reload_config calls _node_action without an action
reload_config ==
    /\ tool = "package" /\ pc = "ready"
    /\ node_object # Nil
    /\ call' = Nil
    /\ req' = Nil
    /\ urlopens' = 0
    /\ executed' = Some([result |-> [kind |-> "none"],
                         error |-> Some(<<"TypeError: _node_action() missing 1 required positional argument: 'action'">>)])
    /\ pc' = "reload_config"
    /\ UNCHANGED <<tool, auth, node_object, runVars, moreVars>>

\* __init__.py 90-94: _execute_request on a request _make_request returned
_execute_request(r) ==
    /\ tool = "package" /\ req # Nil
    /\ pc = "_node_action"
    /\ urlopens' = urlopens + 1
    /\ executed' = Some([result |-> r,
                         error |-> IF r.kind = "response" THEN Nil
                                   ELSE Some(PackageExceptionText(r))])
    /\ pc' = "_execute_request"
    /\ UNCHANGED <<tool, auth, node_object, call, req, runVars, moreVars>>

\* the second member of the pair a job wrapper returns: a text, or the
\* response object itself
Text(str) == [type |-> "str", of |-> str]
ResponseObject(r) == [type |-> "HTTPResponse", of |-> r.reason]

\* what a wrapper's target does when called: it returns a response, or it
\* raises the exception of _execute_request
TargetRaises(r) == r.kind # "response"

\* cli.py 56-66: the outcome of _do_per_auid for a target that behaves as r:
\* the arguments handed to the target and what the wrapper returns or raises
WrapPerAuid(auid, pickled, r) ==
    [fn |-> "_do_per_auid", pickled |-> pickled, auid |-> Some(auid), result |-> r,
     passed |-> IF pickled THEN [node_object |-> TRUE, auid |-> Some(auid)]
                ELSE [node_object |-> TRUE, auid |-> Nil],
     ret |-> IF TargetRaises(r) THEN Nil
             ELSE IF pickled THEN Some([status |-> r.status, second |-> Text(r.reason)])
             ELSE Some([status |-> r.status, second |-> ResponseObject(r)]),
     raised |-> IF TargetRaises(r) THEN Some(PackageExceptionText(r)) ELSE Nil]

\* cli.py 69-79: the outcome of _do_per_node
WrapPerNode(pickled, r) ==
    [fn |-> "_do_per_node", pickled |-> pickled, auid |-> Nil, result |-> r,
     passed |-> [node_object |-> TRUE, auid |-> Nil],
     ret |-> IF TargetRaises(r) THEN Nil
             ELSE IF pickled THEN Some([status |-> r.status, second |-> Text(r.reason)])
             ELSE Some([status |-> r.status, second |-> ResponseObject(r)]),
     raised |-> IF TargetRaises(r) THEN Some(PackageExceptionText(r)) ELSE Nil]

\* a call of the job wrapper _do_per_auid of cli.py on the node built
cli_do_per_auid(auid, pickled, r) ==
    /\ tool = "package" /\ pc = "ready"
    /\ node_object # Nil
    /\ wrapped' = Some(WrapPerAuid(auid, pickled, r))
    /\ pc' = "cli._do_per_auid"
    /\ UNCHANGED <<tool, auth, node_object, call, req, urlopens, executed, runVars, waitVars>>

\* a call of the job wrapper _do_per_node of cli.py on the node built
cli_do_per_node(pickled, r) ==
    /\ tool = "package" /\ pc = "ready"
    /\ node_object # Nil
    /\ wrapped' = Some(WrapPerNode(pickled, r))
    /\ pc' = "cli._do_per_node"
    /\ UNCHANGED <<tool, auth, node_object, call, req, urlopens, executed, runVars, waitVars>>

NextRequest ==
    \/ (tool = "script" /\ pc = "ready" /\
          \E host \in Hosts, o \in auid_flds, auid \in AuidStrings, depth \in Depths,
             r \in UrlopenResults : _do_per_auid(host, o, auid, depth, r))
    \/ (tool = "script" /\ pc = "ready" /\
          \E host \in Hosts, o \in flds \ auid_flds, r \in UrlopenResults :
             _do_per_host(host, o, r))
    \/ (tool = "package" /\ pc = "ready" /\ node_object = Nil /\
          \E address \in Addresses : MakeNode(address))
    \/ \E o \in flds, kwargs \in {<<>>, << <<"depth", DefaultDepth>> >>} :
          _node_action(o, kwargs)
    \/ reload_config
    \/ \E r \in UrlopenResults : _execute_request(r)
    \/ (tool = "package" /\ pc = "ready" /\ node_object # Nil /\
          \E auid \in {<<"a">>, ExampleAuid}, pickled \in BOOLEAN, r \in UrlopenResults :
             cli_do_per_auid(auid, pickled, r))
    \/ (tool = "package" /\ pc = "ready" /\ node_object # Nil /\
          \E pickled \in BOOLEAN, r \in UrlopenResults : cli_do_per_node(pickled, r))

SpecRequest == InitRequest /\ [][NextRequest]_vars

\* ------------------------------------------------------------ the report

\* app.py 187-189 and 202-204: the values the completion loop can store
CellValues == {Recorded(o) : o \in JobOutcomes}

\* the mappings that hold a value for some of the keys
ResultMappings(keys) == UNION {[K -> CellValues] : K \in SUBSET keys}

\* The report step of _per_auid and _per_node (app.py 190-191 and 205-206)
\* applied to bounded lists and to a result mapping over some of their keys;
\* the job variables play no part in it.
InitRender ==
    /\ tool = "app"
    /\ pc = "consuming"
    /\ args = Nil
    /\ op \in {"crawl", "crawl_plugins"}
    /\ nodes \in SeqsUpTo(Hosts, MaxNodes) \ {<<>>}
    /\ auids \in SeqsUpTo(AuidValues, MaxAuids)
    /\ auth = Credentials
    /\ pool_size = Nil
    /\ pool_type = "THREAD_POOL"
    /\ executor = Some([max_workers |-> DefaultMaxWorkers, kind |-> "THREAD_POOL"])
    /\ results \in ResultMappings(TableKeys(op, nodes, auids))
    /\ futures = <<>> /\ fstate = <<>> /\ fresult = <<>> /\ sent = <<>>
    /\ yielded = {} /\ reordered = FALSE
    /\ table = Nil /\ handlers = <<>> /\ tpc = None /\ stderr = <<>>
    /\ exit_status = Nil /\ exit_error = None
    /\ NoRequest
    /\ NoLock
    /\ NoFiles
    /\ NoMore

NextRender == Render /\ UNCHANGED <<requestVars, lockVars, fileVars, moreVars>>

SpecRender == InitRender /\ [][NextRender]_vars

\* ------------------------------------------------- the stderr lock
\* debugpanel.py run with --debug: a job that caught an exception prints the
\* traceback between _STDERR_LOCK.acquire() and release() before it returns
\* (251-256, 266-271), and the driving loop writes its "host: error" line
\* between acquire() and release() (283-286). _STDERR_LOCK is a
\* threading.Lock of the module (108): the threads of a thread pool share the
\* one of the process, every process of a process pool has its own.

\* the writers: 0 is the driving loop, j is job j
LockOf(w) == IF w = 0 \/ Val(executor).kind = "THREAD_POOL" THEN 0 ELSE w

\* the writers inside their stderr-writing section
Writers == {w \in {0} \cup Jobs : executor # Nil /\ stderr_lock[LockOf(w)] = w}

InitStderr ==
    /\ InitLegacy
    /\ NoRequest
    /\ NoLock
    /\ NoFiles
    /\ NoMore

\* debugpanel.py 244-250 and 265-270: one request of a job; an exception
\* takes the job into its except clause
DebugJobRequest(j, r) ==
    /\ j \notin DOMAIN caught
    /\ IF ExecuteRequestError(r) = None
       THEN JobRequest(j, r) /\ UNCHANGED lockVars
       ELSE /\ tool = "legacy" /\ ProcessAlive
            /\ j \in Jobs /\ fstate[j] = "RUNNING"
            /\ sent' = [sent EXCEPT ![j] = @ + 1]
            /\ caught' = (j :> ExecuteRequestError(r)) @@ caught
            /\ UNCHANGED <<tool, pc, exit_status, exit_error, appFields, executor, op,
                           futures, fstate, fresult, yielded, reordered, results, table,
                           args, handlers, legacyVars, stderr_lock>>

\* debugpanel.py 252 and 267: _STDERR_LOCK.acquire() in the job
AcquireInJob(j) ==
    /\ tool = "legacy" /\ ProcessAlive
    /\ j \in DOMAIN caught
    /\ stderr_lock[LockOf(j)] = Free
    /\ stderr_lock' = [stderr_lock EXCEPT ![LockOf(j)] = j]
    /\ UNCHANGED <<tool, pc, exit_status, exit_error, appFields, executor, op, jobVars,
                   results, table, args, handlers, legacyVars, caught>>

\* mutant: the job returns without releasing the lock
ReleaseInJob_KeepsLock(j) ==
    /\ tool = "legacy" /\ ProcessAlive
    /\ j \in DOMAIN caught
    /\ stderr_lock[LockOf(j)] = j
    /\ caught' = [i \in DOMAIN caught \ {j} |-> caught[i]]
    /\ fstate' = [fstate EXCEPT ![j] = "FINISHED"]
    /\ fresult' = [fresult EXCEPT ![j] = Some(caught[j])]
    /\ UNCHANGED <<tool, pc, exit_status, exit_error, appFields, executor, op, futures,
                   sent, yielded, reordered, results, table, args, handlers, legacyVars,
                   stderr_lock>>

\* debugpanel.py 253-256 and 268-271: the traceback is printed, the lock is
\* released and the job returns (host, e)
ReleaseInJob(j) ==
    /\ tool = "legacy" /\ ProcessAlive
    /\ j \in DOMAIN caught
    /\ stderr_lock[LockOf(j)] = j
    /\ stderr_lock' = [stderr_lock EXCEPT ![LockOf(j)] = Free]
    /\ caught' = [i \in DOMAIN caught \ {j} |-> caught[i]]
    /\ fstate' = [fstate EXCEPT ![j] = "FINISHED"]
    /\ fresult' = [fresult EXCEPT ![j] = Some(caught[j])]
    /\ UNCHANGED <<tool, pc, exit_status, exit_error, appFields, executor, op, futures,
                   sent, yielded, reordered, results, table, args, handlers, legacyVars>>

\* debugpanel.py 282-285: the loop takes a failed host and acquires the lock
\* of its process to write the line
LoopAcquire(j) ==
    /\ tool = "legacy" /\ tpc = "loop" /\ ProcessAlive
    /\ j \in Jobs /\ j \notin yielded
    /\ fstate[j] = "FINISHED"
    /\ Val(fresult[j]) # None
    /\ stderr_lock[0] = Free
    /\ stderr_lock' = [stderr_lock EXCEPT ![0] = 0]
    /\ yielded' = yielded \cup {j}
    /\ reordered' = (reordered \/ \E i \in 1..(j - 1) : i \notin yielded)
    /\ stderr' = Append(stderr, <<futures[j][1], Val(fresult[j])>>)
    /\ tpc' = "writing"
    /\ UNCHANGED <<tool, pc, exit_status, exit_error, appFields, executor, op, futures,
                   fstate, fresult, sent, results, table, args, handlers, caught>>

\* debugpanel.py 286-288: the lock is released; sys.exit(1) unless keep_going
LoopRelease ==
    /\ tool = "legacy" /\ tpc = "writing" /\ ProcessAlive
    /\ stderr_lock' = [stderr_lock EXCEPT ![0] = Free]
    /\ tpc' = IF Options.keep_going THEN "loop" ELSE "SystemExit"
    /\ UNCHANGED <<tool, pc, exit_status, exit_error, appFields, executor, op, jobVars,
                   results, table, args, handlers, stderr, caught>>

\* debugpanel.py 282-283: a pass over a host without an error
LoopPassOk(j) ==
    /\ j \in Jobs /\ fstate[j] = "FINISHED" /\ Val(fresult[j]) = None
    /\ LoopPass(j)
    /\ UNCHANGED lockVars

NextStderr ==
    \/ (tool = "legacy" /\ pc = "start" /\ \E a \in LegacyArgs : _main(a))
          /\ UNCHANGED <<requestVars, lockVars, fileVars, moreVars>>
    \/ _do_debug_panel /\ UNCHANGED <<requestVars, lockVars, fileVars, moreVars>>
    \/ (\E j \in Jobs : JobStart(j)) /\ UNCHANGED <<requestVars, lockVars, fileVars, moreVars>>
    \/ LoopEnd /\ UNCHANGED <<requestVars, lockVars, fileVars, moreVars>>
    \/ JoinLoopExit /\ UNCHANGED <<requestVars, lockVars, fileVars, moreVars>>
    \/ (\E j \in Jobs, r \in TransportResults : DebugJobRequest(j, r))
          /\ UNCHANGED <<requestVars, fileVars, moreVars>>
    \/ (\E j \in Jobs : AcquireInJob(j)) /\ UNCHANGED <<requestVars, fileVars, moreVars>>
    \/ (\E j \in Jobs : ReleaseInJob(j)) /\ UNCHANGED <<requestVars, fileVars, moreVars>>
    \/ (\E j \in Jobs : LoopAcquire(j)) /\ UNCHANGED <<requestVars, fileVars, moreVars>>
    \/ LoopRelease /\ UNCHANGED <<requestVars, fileVars, moreVars>>
    \/ (\E j \in Jobs : LoopPassOk(j)) /\ UNCHANGED <<requestVars, fileVars, moreVars>>

SpecStderr == InitStderr /\ [][NextStderr]_vars

\* command lines that start a run, for the runs followed to their end: one
\* operation, one or two hosts, the AUIDs the operation asks for, every pool
\* kind, with and without --keep-going
LiveArgs ==
    {a \in LegacyArgs :
        /\ a.info = None /\ Cardinality(a.ops) = 1
        /\ a.host \in {<<"h1">>, <<"h1", "h2">>} /\ a.hosts = <<>>
        /\ a.auid \in (IF a.ops \cap auid_flds # {} THEN {<<"a1">>, <<"a1", "a2">>} ELSE {<<>>})
        /\ a.auids = <<>>
        /\ a.pool_size \in {0, 1}
        /\ ~a.thread_pool}

NextStderrLive ==
    \/ (tool = "legacy" /\ pc = "start" /\ \E a \in LiveArgs : _main(a))
          /\ UNCHANGED <<requestVars, lockVars, fileVars, moreVars>>
    \/ _do_debug_panel /\ UNCHANGED <<requestVars, lockVars, fileVars, moreVars>>
    \/ (\E j \in Jobs : JobStart(j)) /\ UNCHANGED <<requestVars, lockVars, fileVars, moreVars>>
    \/ LoopEnd /\ UNCHANGED <<requestVars, lockVars, fileVars, moreVars>>
    \/ JoinLoopExit /\ UNCHANGED <<requestVars, lockVars, fileVars, moreVars>>
    \/ (\E j \in Jobs, r \in TransportResults : DebugJobRequest(j, r))
          /\ UNCHANGED <<requestVars, fileVars, moreVars>>
    \/ (\E j \in Jobs : AcquireInJob(j)) /\ UNCHANGED <<requestVars, fileVars, moreVars>>
    \/ (\E j \in Jobs : ReleaseInJob(j)) /\ UNCHANGED <<requestVars, fileVars, moreVars>>
    \/ (\E j \in Jobs : LoopAcquire(j)) /\ UNCHANGED <<requestVars, fileVars, moreVars>>
    \/ LoopRelease /\ UNCHANGED <<requestVars, fileVars, moreVars>>
    \/ (\E j \in Jobs : LoopPassOk(j)) /\ UNCHANGED <<requestVars, fileVars, moreVars>>

\* The threads and processes are scheduled by the operating system and
\* urlopen returns or raises: a step that stays possible is taken in the end.
\* Nothing more is assumed; a threading.Lock promises no order among the
\* threads waiting for it.
SpecStderrFair == InitStderr /\ [][NextStderrLive]_vars /\ WF_vars(NextStderrLive)

\* ------------------------------------------------- the waits between requests
\* debugpanel.py run with --wait SEC: the loop of _do_per_auid_job over the
\* AUIDs (244-250) sleeps at the top of a pass when its flag is set, and sets
\* the flag to "wait > 0" before the request of the pass.

MaxWait == 1

\* the values argparse can hand over for --wait (type=int, default 0)
Waits == -1..MaxWait

\* debugpanel.py 155-202 with the check of --wait (190-191), which comes after
\* that of the pool size and before that of the pool flags
WaitOptionsResult(a, w) ==
    IF /\ w < 0
       /\ \/ OptionsResult(a).status = -1
          \/ OptionsResult(a).error = "--process-pool and --thread-pool are mutually exclusive"
    THEN [status |-> 2, error |-> "invalid wait duration"]
    ELSE OptionsResult(a)

\* debugpanel.py 296-303 for a command line with --wait w
MainWithWait(a, w) ==
    /\ IF WaitOptionsResult(a, w) = OptionsResult(a)
       THEN _main(a)
       ELSE /\ tool = "legacy" /\ pc = "start"
            /\ Len(MergedHosts(a)) <= MaxNodes
            /\ Len(MergedAuids(a)) <= MaxAuids
            /\ args' = Some(a)
            /\ pc' = "exited"
            /\ exit_status' = Some(WaitOptionsResult(a, w).status)
            /\ exit_error' = WaitOptionsResult(a, w).error
            /\ UNCHANGED <<tool, appFields, executor, op, jobVars, results, table, handlers,
                           legacyVars>>
    /\ wait' = Some(w)
    /\ UNCHANGED <<auidloop, wrapped, requestVars, lockVars, fileVars>>

\* debugpanel.py 273-282, and for every job the state in which its function
\* starts: before the loop over the AUIDs (245), or before the one request of
\* a per-host job (264)
StartPool ==
    /\ _do_debug_panel
    /\ auidloop' = [j \in 1..Len(MergedHosts(Options)) |->
                       [at |-> IF TheOp \in auid_flds THEN "for" ELSE "request",
                        sleep |-> FALSE,
                        events |-> <<>>]]
    /\ UNCHANGED <<wait, wrapped, requestVars, lockVars, fileVars>>

\* mutant: the sleep made whenever a wait was asked for, the flag not consulted
LoopTop_SleepsAlways(j) ==
    /\ tool = "legacy" /\ ProcessAlive
    /\ j \in Jobs /\ fstate[j] = "RUNNING"
    /\ auidloop[j].at = "for"
    /\ auidloop' = [auidloop EXCEPT ![j] =
                       [at |-> "request",
                        sleep |-> Val(wait) > 0,
                        events |-> IF Val(wait) > 0
                                   THEN Append(@.events, [ev |-> "sleep", n |-> Val(wait)])
                                   ELSE @.events]]
    /\ UNCHANGED <<tool, pc, exit_status, exit_error, appFields, executor, op, jobVars,
                   results, table, args, handlers, legacyVars,
                   wait, wrapped, requestVars, lockVars, fileVars>>

\* debugpanel.py 246-248: the top of a pass over an AUID: "if sleep:
\* time.sleep(options.wait)", then "sleep = options.wait > 0"
LoopTop(j) ==
    /\ tool = "legacy" /\ ProcessAlive
    /\ j \in Jobs /\ fstate[j] = "RUNNING"
    /\ auidloop[j].at = "for"
    /\ auidloop' = [auidloop EXCEPT ![j] =
                       [at |-> "request",
                        sleep |-> Val(wait) > 0,
                        events |-> IF @.sleep
                                   THEN Append(@.events, [ev |-> "sleep", n |-> Val(wait)])
                                   ELSE @.events]]
    /\ UNCHANGED <<tool, pc, exit_status, exit_error, appFields, executor, op, jobVars,
                   results, table, args, handlers, legacyVars,
                   wait, wrapped, requestVars, lockVars, fileVars>>

\* debugpanel.py 249 and 264: the request of the pass, or of a per-host job
WaitJobRequest(j, r) ==
    /\ j \in Jobs /\ fstate[j] = "RUNNING"
    /\ auidloop[j].at = "request"
    /\ JobRequest(j, r)
    /\ auidloop' = [auidloop EXCEPT ![j] =
                       [at |-> IF op \in auid_flds THEN "for" ELSE "request",
                        sleep |-> @.sleep,
                        events |-> Append(@.events, [ev |-> "request", n |-> sent[j] + 1])]]
    /\ UNCHANGED <<wait, wrapped, requestVars, lockVars, fileVars>>

InitWait ==
    /\ InitLegacy
    /\ NoRequest
    /\ NoLock
    /\ NoFiles
    /\ NoMore

NextWait ==
    \/ (tool = "legacy" /\ pc = "start" /\ \E a \in LegacyArgs, w \in Waits : MainWithWait(a, w))
    \/ StartPool
    \/ (\E j \in Jobs : JobStart(j)) /\ UNCHANGED <<requestVars, lockVars, fileVars, moreVars>>
    \/ \E j \in Jobs : LoopTop(j)
    \/ \E j \in Jobs, r \in TransportResults : WaitJobRequest(j, r)
    \/ (\E j \in Jobs : LoopPass(j)) /\ UNCHANGED <<requestVars, lockVars, fileVars, moreVars>>
    \/ LoopEnd /\ UNCHANGED <<requestVars, lockVars, fileVars, moreVars>>
    \/ JoinLoopExit /\ UNCHANGED <<requestVars, lockVars, fileVars, moreVars>>

SpecWait == InitWait /\ [][NextWait]_vars

\* ------------------------------------------------------- the list files
\* _file_lines (debugpanel.py 291-294) and the merge of the explicit values
\* with the lines of the list files (171-184), applied to bounded files. A
\* line of text is a sequence of pieces: blanks, the line end, the comment
\* marker and opaque words.

MaxLineLen == 3
MaxFileLines == 2

LineChars == {" ", "#", "x"}
RawLines == {body \o <<"\n">> : body \in SeqsUpTo(LineChars, MaxLineLen)}
Contents == SeqsUpTo(RawLines, MaxFileLines)

\* the list files: "A" holds any bounded text, "B" two meaningful lines
\* around a comment line
FileNames == {"A", "B"}
TextOfB == << <<"y", "\n">>, <<" ", "#", "\n">>, <<"z", " ", "#", "c", "\n">> >>
FileSystems == {[f \in FileNames |-> IF f = "A" THEN c ELSE TextOfB] : c \in Contents}

\* the values given with --host or --auid
ExplicitValues == {<<"h">>, <<"x">>}
ExplicitLists == SeqsUpTo(ExplicitValues, MaxNodes)
FileLists == SeqsUpTo(FileNames, MaxFileLines)

\* str.partition('#')[0]: the text before the first '#'
RECURSIVE Partition(_)
Partition(x) ==
    IF x = <<>> \/ Head(x) = "#" THEN <<>>
    ELSE <<Head(x)>> \o Partition(Tail(x))

\* str.strip(): without the leading and the trailing whitespace
IsSpace(c) == c \in {" ", "\n"}

RECURSIVE LStrip(_)
LStrip(x) == IF x # <<>> /\ IsSpace(Head(x)) THEN LStrip(Tail(x)) ELSE x

RECURSIVE RStrip(_)
RStrip(x) ==
    IF x # <<>> /\ IsSpace(x[Len(x)]) THEN RStrip(SubSeq(x, 1, Len(x) - 1)) ELSE x

Strip(x) == LStrip(RStrip(x))

\* mutant: a file without a meaningful line gives the empty list
_file_lines_NoExit(text) ==
    [kind |-> "ok",
     lines |-> SelectSeq([i \in 1..Len(text) |-> Strip(Partition(text[i]))],
                         LAMBDA y : Len(y) > 0)]

\* debugpanel.py 291-294: the stripped non-empty lines, or sys.exit(message)
_file_lines(text) ==
    LET ret == SelectSeq([i \in 1..Len(text) |-> Strip(Partition(text[i]))],
                         LAMBDA y : Len(y) > 0)
    IN IF Len(ret) = 0
       THEN [kind |-> "exit", lines |-> <<>>]
       ELSE [kind |-> "ok", lines |-> ret]

\* mutant: the lines of a file are put in front of the list
RECURSIVE Extend_InFront(_, _, _)
Extend_InFront(acc, names, fs) ==
    IF names = <<>> THEN [kind |-> "ok", lines |-> acc]
    ELSE IF _file_lines(fs[Head(names)]).kind = "exit"
    THEN [kind |-> "exit", lines |-> <<>>]
    ELSE Extend_InFront(_file_lines(fs[Head(names)]).lines \o acc, Tail(names), fs)

\* debugpanel.py 173-174 and 181-182: "for fstr in ...: extend(_file_lines(fstr))"
RECURSIVE Extend(_, _, _)
Extend(acc, names, fs) ==
    IF names = <<>> THEN [kind |-> "ok", lines |-> acc]
    ELSE IF _file_lines(fs[Head(names)]).kind = "exit"
    THEN [kind |-> "exit", lines |-> <<>>]
    ELSE Extend(acc \o _file_lines(fs[Head(names)]).lines, Tail(names), fs)

\* debugpanel.py 172-176 and 180-184: the copy of the explicit values, the
\* files, then parser.error for an empty list
MergedList(explicit, names, fs) ==
    IF Extend(explicit, names, fs).kind = "ok" /\ Len(Extend(explicit, names, fs).lines) = 0
    THEN [kind |-> "error", lines |-> <<>>]
    ELSE Extend(explicit, names, fs)

\* how the process ends for a result: sys.exit(message) is status 1,
\* parser.error is status 2
EndOf(r) ==
    IF r.kind = "exit" THEN [status |-> Some(1), error |-> "contains no meaningful lines"]
    ELSE IF r.kind = "error" THEN [status |-> Some(2), error |-> "at least one target is required"]
    ELSE [status |-> Nil, error |-> None]

InitFiles ==
    /\ tool = "options"
    /\ pc = "ready"
    /\ args = Nil
    /\ AppConstructed
    /\ NoRun
    /\ NoRequest
    /\ NoLock
    /\ NoMore
    /\ fsys \in FileSystems
    /\ given = Nil
    /\ out = Nil

\* a call of _file_lines(fstr)
CallFileLines(fstr) ==
    /\ tool = "options" /\ pc = "ready"
    /\ given' = Some([explicit |-> <<>>, names |-> <<fstr>>])
    /\ out' = Some(_file_lines(fsys[fstr]))
    /\ exit_status' = EndOf(_file_lines(fsys[fstr])).status
    /\ exit_error' = EndOf(_file_lines(fsys[fstr])).error
    /\ pc' = "_file_lines"
    /\ UNCHANGED <<tool, appFields, executor, op, jobVars, results, table, args,
                   handlers, legacyVars, requestVars, lockVars, fsys, moreVars>>

\* the merge of _DebugPanelOptions.__init__ for --host/--hosts (and for
\* --auid/--auids of an AUID operation)
MergeTargets(explicit, names) ==
    /\ tool = "options" /\ pc = "ready"
    /\ given' = Some([explicit |-> explicit, names |-> names])
    /\ out' = Some(MergedList(explicit, names, fsys))
    /\ exit_status' = EndOf(MergedList(explicit, names, fsys)).status
    /\ exit_error' = EndOf(MergedList(explicit, names, fsys)).error
    /\ pc' = "__init__"
    /\ UNCHANGED <<tool, appFields, executor, op, jobVars, results, table, args,
                   handlers, legacyVars, requestVars, lockVars, fsys, moreVars>>

NextFiles ==
    \/ (tool = "options" /\ pc = "ready" /\ \E fstr \in FileNames : CallFileLines(fstr))
    \/ (tool = "options" /\ pc = "ready" /\
          \E explicit \in ExplicitLists, names \in FileLists : MergeTargets(explicit, names))

SpecFiles == InitFiles /\ [][NextFiles]_vars

\* ------------------------------------------------------------- claims

InApp == tool \in {"app", "cli"}

Raised(j) == fresult[j] # Nil /\ Val(fresult[j]).kind = "raise"
Returned200(j) ==
    fresult[j] # Nil /\ Val(fresult[j]).kind = "return" /\ Val(fresult[j]).status = 200

\* the completion loop of _per_auid/_per_node has ended
LoopEnded == InApp /\ pc \in {"consuming", "done"} /\ yielded = Jobs

Count(seq, v) == Cardinality({i \in 1..Len(seq) : seq[i] = v})

\* C1: when the completion loop of _per_node or _per_auid has ended, the
\* results mapping holds an entry for the key of every submitted job, whether
\* the job returned or raised, and for no other key.
C1_EveryKeyResolved ==
    LoopEnded =>
        /\ \A j \in Jobs : futures[j] \in DOMAIN results
        /\ DOMAIN results = {futures[j] : j \in Jobs}

C1_Witness ==
    /\ LoopEnded /\ op = "crawl"
    /\ Len(futures) = 4
    /\ \E j \in Jobs : Raised(j)
    /\ \E j \in Jobs : Returned200(j)

\* C2 (as stated): at the end of every unit-scoped run, of DebugPanelApp and
\* of the legacy script alike, each (node, unit) pair of the lists has got
\* its outcome: |N| x |U| requests have been answered.
RECURSIVE SumSent(_)
SumSent(j) == IF j = 0 THEN 0 ELSE sent[j] + SumSent(j - 1)

LegacyRunEnded ==
    tool = "legacy" /\ exit_status # Nil /\ tpc \in {"returned", "SystemExit"}

C2_Original ==
    /\ (InApp /\ pc = "done" /\ op \in PerAuidMethods) =>
            SumSent(Len(futures)) = Len(nodes) * Len(auids)
    /\ (LegacyRunEnded /\ op \in auid_flds) =>
            SumSent(Len(futures)) = Len(MergedHosts(Options)) * Len(MergedAuids(Options))

\* C2 (amended): when _per_auid of DebugPanelApp has printed its table, one
\* job was submitted per (node, unit) pair of the lists (as many jobs with key
\* (n, u) as n occurs in the node list times u occurs in the unit list),
\* |N| x |U| in all, each of them has finished with one outcome and has been
\* consumed once, and the table has |U| rows of |N| cells. The legacy script
\* produces at most one outcome per node and at most |N| x |U| requests.
C2_OneOutcomePerPair ==
    /\ (InApp /\ pc = "done" /\ op \in PerAuidMethods) =>
        /\ Len(futures) = Len(nodes) * Len(auids)
        /\ \A n \in Hosts, u \in AuidValues :
              Count(futures, <<n, u>>) = Count(nodes, n) * Count(auids, u)
        /\ yielded = Jobs
        /\ \A j \in Jobs : fstate[j] = "FINISHED" /\ fresult[j] # Nil /\ sent[j] = 1
        /\ Len(Val(table).rows) = Len(auids)
        /\ \A i \in 1..Len(auids) : Len(Val(table).rows[i]) = 1 + Len(nodes)
    /\ (tool = "legacy" /\ op \in auid_flds) =>
        /\ Len(futures) = Len(MergedHosts(Options))
        /\ SumSent(Len(futures)) <= Len(MergedHosts(Options)) * Len(MergedAuids(Options))

C2_Witness ==
    /\ InApp /\ pc = "done" /\ op \in PerAuidMethods
    /\ Len(nodes) = 2 /\ Len(auids) = 2
    /\ reordered
    /\ \E j \in Jobs : Raised(j)

\* C3: one pass of the completion loop stores the outcome of its job under
\* that job's key and changes no other entry, ends no other job and lets no
\* exception escape; and when the loop has ended after exactly one job raised
\* and every other job returned 200, every job has been consumed, only the
\* failing job's key can hold a failure, every other key holds "Requested",
\* and the process has not crashed.
OneRaised ==
    /\ Cardinality({j \in Jobs : Raised(j)}) = 1
    /\ \A j \in Jobs : Raised(j) \/ Returned200(j)

C3_Expected(o) ==
    IF o.kind = "raise" THEN o.exc
    ELSE IF o.status = 200 THEN "Requested" ELSE o.reason

C4_TableOrder ==
    (InApp /\ pc = "done" /\ table # Nil) =>
        IF op \in PerNodeMethods
        THEN /\ Val(table).headers = <<"Node", "Result">>
             /\ Len(Val(table).rows) = Len(nodes)
             /\ \A i \in 1..Len(nodes) :
                    Val(table).rows[i] = <<nodes[i], results[<<nodes[i]>>]>>
        ELSE /\ Val(table).headers = <<"AUID">> \o nodes
             /\ Len(Val(table).rows) = Len(auids)
             /\ \A i \in 1..Len(auids) :
                    /\ Val(table).rows[i][1] = auids[i]
                    /\ \A j \in 1..Len(nodes) :
                          Val(table).rows[i][j + 1] = results[<<nodes[j], auids[i]>>]

C4_Witness ==
    /\ InApp /\ pc = "done" /\ table # Nil
    /\ op \in PerAuidMethods
    /\ nodes = <<"h2", "h1">> /\ auids = <<"a2", "a1">>
    /\ reordered
    /\ Val(table).rows[1][1] = "a2"

\* C5: when the legacy script has exited, its exit status is non-zero if the
\* validation of the arguments failed, 0 if every job succeeded, and non-zero
\* if a job failed while --keep-going was not given.
C5_ExitStatus ==
    (tool = "legacy" /\ pc = "exited") =>
        /\ (OptionsResult(Options).error # None) => Val(exit_status) # 0
        /\ (tpc = "returned" /\ stderr = <<>>) => Val(exit_status) = 0
        /\ (stderr # <<>> /\ ~Options.keep_going) => Val(exit_status) # 0

\* the legacy script was invoked with no operation or with several
WrongOpCount ==
    tool = "legacy" /\ args # Nil /\ Cardinality(Options.ops) # 1

NothingStarted ==
    /\ executor = Nil
    /\ futures = <<>>
    /\ SumSent(Len(sent)) = 0
    /\ tpc = None

C8_EmptyTargetsRejected ==
    /\ (/\ tool = "legacy" /\ args # Nil
        /\ Options.info = None /\ Cardinality(Options.ops) = 1
        /\ \/ MergedHosts(Options) = <<>>
           \/ Options.ops \cap auid_flds # {} /\ MergedAuids(Options) = <<>>) =>
            /\ pc = "exited" /\ exit_status = Some(2)
            /\ exit_error \in {"at least one target host is required",
                                "at least one target AUID is required"}
            /\ executor = Nil /\ futures = <<>>
    /\ (/\ tool = "cli" /\ args # Nil
        /\ Dispatched(Val(args)) \in {"cp", "crawl_plugins"}
        /\ get_nodes(Val(args)) = <<>>) =>
            /\ pc = "exited" /\ exit_status = Some(2)
            /\ executor = Nil /\ futures = <<>> /\ table = Nil

\* C9: the stored pool size is None or positive at all times, a rejected
\* set_pool_size leaves it unchanged, and every executor has a positive
\* worker count.
C9_PoolSizePositive ==
    /\ pool_size = Nil \/ Val(pool_size) > 0
    /\ executor # Nil => Val(executor).max_workers > 0

\* the effective pool size of the run
EffectivePoolSize ==
    IF tool = "legacy"
    THEN IF Options.pool_size > 0 THEN Options.pool_size ELSE Len(MergedHosts(Options))
    ELSE IF pool_size # Nil THEN Val(pool_size) ELSE DefaultMaxWorkers

JobBodyEnded == pc \in {"_do_per_auid", "_do_per_host", "_node_action", "reload_config"}

\* C11: when the body of a job has ended, whether it returned or raised, it
\* has sent exactly one request.
C11_OneRequestPerJob ==
    JobBodyEnded => urlopens = 1

\* C12: in the legacy script a request is reported as successful (it raises
\* nothing, so that its job writes no error line) if and only if the response
\* status is exactly 200.
C12_SuccessIff200 ==
    (tool = "script" /\ executed # Nil) =>
        (Val(executed).error = Nil <=>
            (Val(executed).result.kind = "response" /\ Val(executed).result.status = 200))

\* the kind of failure of a result of urlopen, and the kind a failure
\* description reads as
FailureKind(r) ==
    IF r.kind = "URLError" THEN "connection"
    ELSE IF r.code = 401 THEN "authentication"
    ELSE IF r.code = 403 THEN "authorization"
    ELSE "http"

KindOfText(text) ==
    CASE text[1] = "bad username or password (HTTP 401)" -> "authentication"
      [] text[1] = "not allowed from this IP address (HTTP 403)" -> "authorization"
      [] text[1] = "URL error: " -> "connection"
      [] text[1] = "<urlopen error " -> "connection"
      [] text[1] \in {"HTTP ", "HTTP Error "} ->
            IF SubSeq(text, 2, 4) = <<"4", "0", "1">> THEN "authentication"
            ELSE IF SubSeq(text, 2, 4) = <<"4", "0", "3">> THEN "authorization"
            ELSE "http"
      [] OTHER -> "unknown"

\* C13: every failure of urlopen is raised with a description that tells its
\* kind: the description of a 401, of a 403, of another HTTP error and of a
\* connection error read as four different kinds, so no two kinds share a
\* description; in the legacy script the 401 and the 403 have their own
\* texts, another HTTP error carries its code and reason, and a connection
\* error carries its reason.
C13_FailureKindsDistinct ==
    (executed # Nil /\ Val(executed).result.kind \notin {"none", "response"}) =>
        LET r == Val(executed).result IN
        /\ Val(executed).error # Nil
        /\ KindOfText(Val(Val(executed).error)) = FailureKind(r)
        /\ tool = "script" =>
            LET text == Val(Val(executed).error) IN
            /\ FailureKind(r) = "authentication" =>
                    text = <<"bad username or password (HTTP 401)">>
            /\ FailureKind(r) = "authorization" =>
                    text = <<"not allowed from this IP address (HTTP 403)">>
            /\ FailureKind(r) = "http" =>
                    text = <<"HTTP ">> \o Str(r.code) \o <<" error: ", r.reason>>
            /\ FailureKind(r) = "connection" => text = <<"URL error: ", r.reason>>

C13_Witness ==
    /\ tool = "script" /\ pc = "_do_per_auid"
    /\ executed # Nil /\ Val(executed).result.kind = "HTTPError"
    /\ Val(executed).result.code = 403
    /\ KindOfText(Val(Val(executed).error)) = "authorization"

\* the escape of one character of a unit identifier
EscapeChar(c) ==
    CASE c = "%" -> <<"%", "2", "5">>
      [] c = "|" -> <<"%", "7", "C">>
      [] c = "&" -> <<"%", "2", "6">>
      [] c = "~" -> <<"%", "7", "E">>
      [] OTHER -> <<c>>

RECURSIVE SinglePass(_)
SinglePass(str) ==
    IF str = <<>> THEN <<>> ELSE EscapeChar(Head(str)) \o SinglePass(Tail(str))

\* the value of the auid parameter of a URL: what follows "&auid=" up to the
\* next "&"
RECURSIVE UpToAmp(_)
UpToAmp(str) ==
    IF str = <<>> \/ Head(str) = "&" THEN <<>> ELSE <<Head(str)>> \o UpToAmp(Tail(str))

AuidParam(url) ==
    LET i == CHOOSE k \in 1..Len(url) : url[k] = "&auid="
    IN UpToAmp(SubSeq(url, i + 1, Len(url)))

\* C14: the auid parameter of a request for a unit is the unit identifier
\* with every character escaped once, in one pass: % as %25, | as %7C, & as
\* %26, ~ as %7E, every other character unchanged.
C14_AuidEscapedOnce ==
    (call # Nil /\ Val(call).auid # Nil) =>
        /\ \E k \in 1..Len(Val(req).url) : Val(req).url[k] = "&auid="
        /\ AuidParam(Val(req).url) = SinglePass(Val(Val(call).auid))

C14_Witness ==
    /\ call # Nil /\ Val(call).auid = Some(ExampleAuid)
    /\ AuidParam(Val(req).url) =
          <<"a", "%", "2", "5", "b", "%", "7", "C", "c", "%", "2", "6",
            "d", "%", "7", "E", "e">>

\* the extra parameters of a URL, in the order given
RECURSIVE ExtraParams(_)
ExtraParams(kwargs) ==
    IF kwargs = <<>> THEN <<>>
    ELSE <<"&", Head(kwargs)[1], "=">> \o Str(Head(kwargs)[2]) \o ExtraParams(Tail(kwargs))

BaseURL == IF tool = "script" THEN <<"http://">> \o Val(call).target ELSE Val(call).target

C16_BasicAuthHeader ==
    req # Nil =>
        /\ DOMAIN Val(req).headers = {"Authorization"}
        /\ Val(req).headers.Authorization = <<"Basic ", B64(<<auth[1], ":", auth[2]>>)>>

C16_Witness ==
    /\ tool = "package" /\ pc = "_node_action"
    /\ auth = <<"admin", "secret">>
    /\ req # Nil
    /\ Val(req).headers.Authorization = <<"Basic ", B64(<<"admin", ":", "secret">>)>>

\* C18: the base URL of every node contains a scheme and does not end with a
\* slash.
C18_BaseUrlNormalized ==
    node_object # Nil =>
        /\ HasScheme(Val(node_object).url)
        /\ Val(node_object).url[Len(Val(node_object).url)] # "/"

\* C17: the credentials are resolved before any job is built, the command
\* line resolves them once and never again, and from the submission of the
\* jobs to the printed report no step changes the credentials, the node list
\* or the unit list (nor, in the legacy script, the options).
C17_SharedStateReadOnly ==
    /\ [][(InApp /\ pc = "consuming") =>
            (auth' = auth /\ nodes' = nodes /\ auids' = auids)]_vars
    /\ [][(tool = "cli" /\ auth # Nil) => auth' = auth]_vars
    /\ [][(tool = "legacy" /\ args # Nil) => args' = args]_vars
    /\ [](InApp /\ futures # <<>> => auth # Nil)
    /\ [](tool = "cli" /\ auth # Nil => pc # "start")

C17_Witness ==
    /\ tool = "cli" /\ pc = "done"
    /\ auth = Credentials
    /\ nodes = <<"h2", "h1">>
    /\ Len(futures) = 2
    /\ reordered

\* the operation was called on a DebugPanelApp that has nodes, credentials
\* and a valid pool size
CalledReady ==
    InApp /\ op # None /\ nodes # <<>> /\ auth # Nil /\ ExecutorWorkers(pool_size) # Nil

\* C19: every operation runs with the scope of the action table: a
\* node-scoped operation (crawl-plugins, reload-config) submits one job per
\* node, keyed by the node alone; a unit-scoped operation submits one job per
\* (node, unit) pair; the legacy script starts one job per host, which sends
\* one request for a node-scoped operation and one per unit otherwise.
C19_ActionTable ==
    /\ (CalledReady /\ op \in PerNodeMethods) =>
            /\ pc \in {"consuming", "done"}
            /\ futures = [j \in 1..Len(nodes) |-> <<nodes[j]>>]
    /\ (CalledReady /\ op \in PerAuidMethods) =>
            /\ pc \in {"consuming", "done"}
            /\ Len(futures) = Len(nodes) * Len(auids)
            /\ \A j \in Jobs : Len(futures[j]) = 2
    /\ (tool = "legacy" /\ op # None) =>
            /\ Len(futures) = Len(MergedHosts(Options))
            /\ JobRequests = IF op \in {"crawl_plugins", "reload_config"} THEN 1
                             ELSE Len(MergedAuids(Options))

\* the cell of the report that belongs to job j of a unit-scoped operation:
\* the jobs are submitted unit by unit and, for a unit, node by node
CellOfJob(j) ==
    Val(table).rows[((j - 1) \div Len(nodes)) + 1][((j - 1) % Len(nodes)) + 2]

\* C20: the report of a unit-scoped operation has one row per entry of the
\* unit list, in list order, duplicates included, and one cell per node in
\* each row; the cell of a job that failed (it raised, or it returned a
\* status other than 200) holds the text of its failure or its reason, never
\* "Requested".
C20_ReportCells ==
    (InApp /\ pc = "done" /\ op \in PerAuidMethods) =>
        /\ Len(Val(table).rows) = Len(auids)
        /\ \A i \in 1..Len(auids) :
              /\ Val(table).rows[i][1] = auids[i]
              /\ Len(Val(table).rows[i]) = 1 + Len(nodes)
        /\ \A j \in Jobs : ~Returned200(j) =>
              /\ CellOfJob(j) = C3_Expected(Val(fresult[j]))
              /\ CellOfJob(j) # "Requested"

\* C22: when the legacy process has ended after its driving loop stopped at
\* a failure (no --keep-going), no job that a worker had started is still
\* running: every dispatched job has run to its end.
C22_DispatchedJobsComplete ==
    (tool = "legacy" /\ exit_status # Nil /\ tpc = "SystemExit") =>
        \A j \in Jobs : fstate[j] # "RUNNING"

\* C23: a pass of the driving loop consumes an outcome only when every job of
\* the invocation has been submitted: the pass adds no job, and from the
\* first consumed outcome on the pool holds one job per node, per (node,
\* unit) pair, or per host of the legacy script.
C23_AllSubmittedFirst ==
    /\ [][(yielded' # yielded) => (futures' = futures /\ yielded' \subseteq Jobs)]_vars
    /\ [](InApp /\ yielded # {} =>
            Len(futures) = IF op \in PerNodeMethods THEN Len(nodes)
                           ELSE Len(nodes) * Len(auids))
    /\ [](tool = "legacy" /\ yielded # {} => Len(futures) = Len(MergedHosts(Options)))

C23_Witness ==
    /\ InApp /\ pc = "consuming"
    /\ Len(futures) = 4
    /\ Cardinality(yielded) = 1
    /\ \E j \in Jobs : fstate[j] = "PENDING"

\* C25: an entry of the results mapping, once stored, is never replaced by a
\* later completion, whatever the lists hold (duplicates included).
C25_OutcomeImmutable ==
    [][InApp => \A k \in DOMAIN results :
                    k \in DOMAIN results' /\ results'[k] = results[k]]_vars

\* a legacy job has returned (host, e) with an error e
LegacyFailed(j) ==
    tool = "legacy" /\ j \in Jobs /\ fresult[j] # Nil /\ Val(fresult[j]) # None

\* C29: a legacy job sends its requests one at a time; once it has returned
\* it sends nothing more and its outcome stays; it returns (host, None) only
\* after the request of the last AUID, and (host, error) right at the first
\* failing request, so that the later AUIDs of that host get no request.
C29_StopsAtFirstFailure ==
    /\ [][tool = "legacy" => \A j \in Jobs :
            /\ j \in DOMAIN sent' /\ sent'[j] \in {sent[j], sent[j] + 1}
            /\ fresult[j] # Nil => (sent'[j] = sent[j] /\ fresult'[j] = fresult[j])
            /\ (fresult[j] = Nil /\ fresult'[j] # Nil /\ Val(fresult'[j]) # None) =>
                    (sent'[j] = sent[j] + 1 /\ fstate'[j] = "FINISHED")]_vars
    /\ [](tool = "legacy" => \A j \in Jobs :
            /\ (fresult[j] # Nil) <=> (fstate[j] = "FINISHED")
            /\ (fresult[j] # Nil /\ Val(fresult[j]) = None) => sent[j] = JobRequests
            /\ LegacyFailed(j) => sent[j] \in 1..JobRequests
            /\ fresult[j] = Nil => sent[j] < JobRequests)

C29_Witness ==
    /\ tool = "legacy" /\ exit_status # Nil
    /\ op \in auid_flds /\ JobRequests = 2
    /\ \E j \in Jobs : LegacyFailed(j) /\ sent[j] = 1

\* the legacy script ran with --keep-going
KeepGoing == tool = "legacy" /\ args # Nil /\ op # None /\ Options.keep_going

\* C30: with --keep-going the driving loop never exits at a failure; a pass
\* that consumes a failed host writes exactly one "host: error" line and a
\* pass that consumes another host writes none; and when the process has
\* ended every host has been consumed, stderr holds one line per failed job,
\* and every host that did not fail got all of its requests.
C30_KeepGoingContinues ==
    /\ [](KeepGoing => tpc # "SystemExit")
    /\ [][KeepGoing => \A j \in Jobs : (j \notin yielded /\ j \in yielded') =>
            stderr' = IF Val(fresult[j]) # None
                      THEN Append(stderr, <<futures[j][1], Val(fresult[j])>>)
                      ELSE stderr]_vars
    /\ [](KeepGoing /\ exit_status # Nil =>
            /\ yielded = Jobs
            /\ Len(stderr) = Cardinality({j \in Jobs : LegacyFailed(j)})
            /\ \A j \in Jobs :
                  IF LegacyFailed(j)
                  THEN \E i \in 1..Len(stderr) : stderr[i] = <<futures[j][1], Val(fresult[j])>>
                  ELSE sent[j] = JobRequests)

C30_Witness ==
    /\ KeepGoing /\ exit_status # Nil
    /\ Len(futures) = 2 /\ JobRequests = 2
    /\ LegacyFailed(1) /\ sent[1] = 1
    /\ ~LegacyFailed(2) /\ sent[2] = 2
    /\ yielded = {1, 2}

\* both pool flags were given on the command line
BothPoolFlags ==
    tool \in {"cli", "legacy"} /\ args # Nil /\ Options.process_pool /\ Options.thread_pool

\* the pool kind a command line asks for
WantedKind ==
    IF Options.process_pool /\ ~Options.thread_pool THEN "PROCESS_POOL" ELSE "THREAD_POOL"

CellFor(cell, key) ==
    IF key \in DOMAIN results THEN cell = results[key] ELSE cell \notin CellValues

C24_StderrExclusive == Cardinality(Writers) <= 1

\* the places of a line of text before its first comment marker that hold
\* something other than whitespace
Meaningful(x) ==
    {i \in 1..Len(x) : ~IsSpace(x[i]) /\ \A k \in 1..i : x[k] # "#"}

\* the lines of a text that survive, in file order
Surviving(text) == SelectSeq(text, LAMBDA x : Meaningful(x) # {})

\* a surviving line without its comment and its surrounding whitespace
Stripped(x) ==
    SubSeq(x, CHOOSE i \in Meaningful(x) : \A k \in Meaningful(x) : i <= k,
              CHOOSE i \in Meaningful(x) : \A k \in Meaningful(x) : i >= k)

\* _file_lines has been applied to the file named in given
FileLoaded == tool = "options" /\ pc = "_file_lines"
LoadedText == fsys[Val(given).names[1]]

\* C27: _file_lines fails (sys.exit with a message, status 1) exactly for a
\* file in which no line holds anything but whitespace before its first '#';
\* otherwise it returns the surviving lines, each without its comment and
\* its surrounding whitespace, in file order.
C27_EmptyListFileRejected ==
    FileLoaded =>
        /\ (Val(out).kind = "exit") <=> (Surviving(LoadedText) = <<>>)
        /\ Val(out).kind = "exit" => exit_status = Some(1)
        /\ Val(out).kind # "exit" =>
              /\ Val(out).kind = "ok"
              /\ exit_status = Nil
              /\ Len(Val(out).lines) = Len(Surviving(LoadedText))
              /\ \A k \in 1..Len(Val(out).lines) :
                    Val(out).lines[k] = Stripped(Surviving(LoadedText)[k])

C27_Witness ==
    /\ FileLoaded
    /\ LoadedText = << <<" ", "#", "x", "\n">>, <<" ", "x", "#", "\n">> >>
    /\ Val(out).kind = "ok"
    /\ Val(out).lines = << <<"x">> >>

\* the merge has been applied to the lists named in given
Merged == tool = "options" /\ pc = "__init__"

\* the lines of the k-th list file given, and the number of lines of the
\* files before it
LinesOfFile(k) == _file_lines(fsys[Val(given).names[k]]).lines

RECURSIVE LinesBefore(_)
LinesBefore(k) == IF k <= 1 THEN 0 ELSE Len(LinesOfFile(k - 1)) + LinesBefore(k - 1)

\* C26: a merged list that was built holds the explicit values in the order
\* given, then the lines of each list file, the files in the order given and
\* the lines in file order, and nothing else: no entry is moved or dropped,
\* duplicates stay.
C26_MergeOrder ==
    (Merged /\ Val(out).kind = "ok") =>
        LET e == Val(given).explicit
            n == Len(Val(given).names)
        IN /\ Len(Val(out).lines) = Len(e) + LinesBefore(n + 1)
           /\ \A i \in 1..Len(e) : Val(out).lines[i] = e[i]
           /\ \A k \in 1..n : \A l \in 1..Len(LinesOfFile(k)) :
                 Val(out).lines[Len(e) + LinesBefore(k) + l] = LinesOfFile(k)[l]

C26_Witness ==
    /\ Merged /\ Val(out).kind = "ok"
    /\ Val(given).explicit = << <<"h">>, <<"h">> >>
    /\ Val(given).names = <<"B", "A">>
    /\ Val(out).lines = << <<"h">>, <<"h">>, <<"y">>, <<"z">>, <<"x", " ", "x">>, <<"x">> >>

\* dispatch was given a parsed model with the command field f set and no other
OnlyField(f) ==
    /\ tool = "cli" /\ args # Nil
    /\ ~at_most_one_raises(Val(args))
    /\ Val(args).commands = {f}

\* C35: for every command field of DebugPanelModel, when that field alone is
\* set, dispatch finds the method named "_" + field on DebugPanelCli and
\* invokes that handler, and no other, exactly once.
C35_HandlerPerCommand ==
    \A f \in CommandFields : OnlyField(f) =>
        /\ handlers = <<f>>
        /\ exit_error # "AttributeError"

\* the legacy script was given one operation, a node-scoped one, with or
\* without unit identifiers (--auid or --auids)
NodeScoped ==
    /\ tool = "legacy" /\ args # Nil
    /\ Cardinality(Options.ops) = 1 /\ Options.ops \subseteq flds \ auid_flds
UnitsGiven == Len(Options.auid) + Len(Options.auids) > 0
UnitErrors == {"--auid, --auids only valid with AUID operations",
               "at least one target AUID is required"}

RECURSIVE PercentDecode(_)
PercentDecode(str) ==
    IF str = <<>> THEN <<>>
    ELSE IF Head(str) = "%" /\ Len(str) >= 3
    THEN LET code == SubSeq(str, 2, 3)
             char == CASE code = <<"2", "5">> -> "%"
                       [] code = <<"7", "C">> -> "|"
                       [] code = <<"2", "6">> -> "&"
                       [] code = <<"7", "E">> -> "~"
                       [] OTHER -> "?"
         IN <<char>> \o PercentDecode(SubSeq(str, 4, Len(str)))
    ELSE <<Head(str)>> \o PercentDecode(Tail(str))

\* C37: the auid parameter sent for a unit identifier is the escaped form of
\* no other unit identifier, and percent-decoding it gives the identifier
\* back.
C37_EscapingInjective ==
    (tool = "script" /\ call # Nil /\ Val(call).auid # Nil) =>
        /\ \A other \in AuidStrings :
              other # Val(Val(call).auid) => AuidEnc(other) # AuidParam(Val(req).url)
        /\ PercentDecode(AuidParam(Val(req).url)) = Val(Val(call).auid)

C37_Witness ==
    /\ tool = "script" /\ call # Nil /\ Val(call).auid = Some(<<"%", "|">>)
    /\ AuidParam(Val(req).url) = <<"%", "2", "5", "%", "7", "C">>
    /\ AuidEnc(<<"|">>) = <<"%", "7", "C">>

\* C38: a call of _do_per_auid hands the node object and the unit identifier
\* to its target, and when the target returns, the wrapper returns the pair
\* (status, reason text), with the 'pickled' flag and without it; a call of
\* _do_per_node returns (status, reason text) in both modes as well.
C38_WrapperResult ==
    wrapped # Nil =>
        LET w == Val(wrapped) IN
        /\ w.fn = "_do_per_auid" => w.passed = [node_object |-> TRUE, auid |-> w.auid]
        /\ ~TargetRaises(w.result) =>
              /\ w.ret # Nil
              /\ Val(w.ret).status = w.result.status
              /\ Val(w.ret).second = Text(w.result.reason)

\* the orders in which the jobs of a run can complete, and the results
\* mapping the completion loop builds when it takes them in the order p
CompletionOrders ==
    {p \in [Jobs -> Jobs] : \A i \in Jobs, k \in Jobs : i # k => p[i] # p[k]}

RECURSIVE ResultsAfter(_)
ResultsAfter(p) ==
    IF p = <<>> THEN <<>>
    ELSE (futures[p[Len(p)]] :> Recorded(Val(fresult[p[Len(p)]])))
            @@ ResultsAfter(SubSeq(p, 1, Len(p) - 1))

\* C32: the table printed for given lists and given outcomes of the jobs is
\* the table of every completion order: whatever the order in which the
\* loop took the jobs, the same rows with the same cells come out, duplicates
\* in the lists included.
C32_OrderIndependentTable ==
    (InApp /\ pc = "done" /\ table # Nil) =>
        \A p \in CompletionOrders :
            Val(table).rows = TableRows(op, nodes, auids, ResultsAfter(p))

\* the events of legacy job j, and the places of its sleeps and requests
EventsOf(j) == auidloop[j].events
SleepsOf(j) == {i \in 1..Len(EventsOf(j)) : EventsOf(j)[i].ev = "sleep"}
RequestsOf(j) == {i \in 1..Len(EventsOf(j)) : EventsOf(j)[i].ev = "request"}

\* the legacy script runs its jobs with the wait duration W
Waiting == tool = "legacy" /\ wait # Nil /\ auidloop # <<>>

\* C31: in a legacy job the sleeps are those between consecutive requests of
\* that job and no others: the first event is a request, every sleep lasts W
\* seconds with W > 0, follows a request and comes before the next one, every
\* request but the first follows exactly one sleep when W > 0, a job that
\* has returned ends with a request, a per-AUID job that returned without an
\* error over k AUIDs made k - 1 sleeps, and with W = 0, or in a per-host
\* job, there is no sleep at all.
C31_WaitBetweenRequests ==
    Waiting => \A j \in Jobs :
        LET e == EventsOf(j)
            W == Val(wait)
        IN /\ Cardinality(RequestsOf(j)) = sent[j]
           /\ e # <<>> => e[1].ev = "request"
           /\ \A i \in SleepsOf(j) :
                 /\ W > 0 /\ e[i].n = W
                 /\ i > 1 /\ e[i - 1].ev = "request"
                 /\ i < Len(e) => e[i + 1].ev = "request"
           /\ \A i \in RequestsOf(j) :
                 (i > 1 /\ W > 0) => e[i - 1].ev = "sleep"
           /\ fstate[j] = "FINISHED" => e[Len(e)].ev = "request"
           /\ (fresult[j] # Nil /\ Val(fresult[j]) = None) =>
                 Cardinality(SleepsOf(j)) =
                    IF W > 0 /\ op \in auid_flds THEN JobRequests - 1 ELSE 0
           /\ (W = 0 \/ op \notin auid_flds) => SleepsOf(j) = {}

C31_Witness ==
    /\ Waiting /\ Val(wait) = 1
    /\ op = "crawl" /\ JobRequests = 2
    /\ fresult[1] = Some(None)
    /\ EventsOf(1) = <<[ev |-> "request", n |-> 1], [ev |-> "sleep", n |-> 1],
                       [ev |-> "request", n |-> 2]>>

\* writer w (0 the driving loop, j the job j) holds the lock of its process;
\* job j is in its except clause and waits for the lock
Holds(w) == executor # Nil /\ stderr_lock[LockOf(w)] = w
WaitsForLock(j) == j \in DOMAIN caught /\ ~Holds(j)

InLoop == (InApp /\ pc = "consuming") \/ (tool = "legacy" /\ tpc = "loop")
FirstError ==
    /\ ~Options.keep_going
    /\ \E j \in yielded : LegacyFailed(j)

Init == (InitApp \/ InitCli \/ InitLegacy) /\ NoRequest /\ NoLock /\ NoFiles /\ NoMore
Next == (NextApp \/ NextCli \/ NextLegacy) /\ UNCHANGED <<requestVars, lockVars, fileVars, moreVars>>
Spec == Init /\ [][Next]_vars

\* The runs followed to their end: the steps of Next with fewer inputs.
LiveCliArgs ==
    {a \in CliArgs : /\ Cardinality(a.commands) = 1
                     /\ a.node \in {<<"h1">>, <<"h1", "h2">>} /\ a.nodes = <<>>
                     /\ ~a.thread_pool}

NextLive ==
    \/ (\E ns \in {<<"h1", "h2">>} : add_nodes(ns))
          /\ UNCHANGED <<requestVars, lockVars, fileVars, moreVars>>
    \/ (\E as \in {<<"a1">>} : add_auids(as))
          /\ UNCHANGED <<requestVars, lockVars, fileVars, moreVars>>
    \/ (\E p \in {Some(1), Some(MaxPoolSize)} : set_pool_size(p))
          /\ UNCHANGED <<requestVars, lockVars, fileVars, moreVars>>
    \/ (\E t \in {"PROCESS_POOL"} : set_pool_type(t))
          /\ UNCHANGED <<requestVars, lockVars, fileVars, moreVars>>
    \/ _initialize_auth /\ UNCHANGED <<requestVars, lockVars, fileVars, moreVars>>
    \/ (\E m \in OpInputs : Operation(m))
          /\ UNCHANGED <<requestVars, lockVars, fileVars, moreVars>>
    \/ (\E j \in Jobs : JobStart(j)) /\ UNCHANGED <<requestVars, lockVars, fileVars, moreVars>>
    \/ (\E j \in Jobs, o \in JobOutcomes : JobFinish(j, o))
          /\ UNCHANGED <<requestVars, lockVars, fileVars, moreVars>>
    \/ (\E j \in Jobs : Consume(j)) /\ UNCHANGED <<requestVars, lockVars, fileVars, moreVars>>
    \/ Render /\ UNCHANGED <<requestVars, lockVars, fileVars, moreVars>>
    \/ (tool = "cli" /\ pc = "start" /\ \E a \in LiveCliArgs : run(a))
          /\ UNCHANGED <<requestVars, lockVars, fileVars, moreVars>>
    \/ (tool = "legacy" /\ pc = "start" /\ \E a \in LiveArgs : _main(a))
          /\ UNCHANGED <<requestVars, lockVars, fileVars, moreVars>>
    \/ _do_debug_panel /\ UNCHANGED <<requestVars, lockVars, fileVars, moreVars>>
    \/ (\E j \in Jobs, r \in TransportResults : JobRequest(j, r))
          /\ UNCHANGED <<requestVars, lockVars, fileVars, moreVars>>
    \/ (\E j \in Jobs : LoopPass(j)) /\ UNCHANGED <<requestVars, lockVars, fileVars, moreVars>>
    \/ LoopEnd /\ UNCHANGED <<requestVars, lockVars, fileVars, moreVars>>
    \/ JoinLoopExit /\ UNCHANGED <<requestVars, lockVars, fileVars, moreVars>>

\* The pool workers, the driving loop and the main thread are scheduled by
\* the operating system, and every transport call returns or raises: a step
\* that stays possible is taken in the end.
SpecFair == Init /\ [][NextLive]_vars /\ WF_vars(NextLive)
====
